---------------------------- MODULE Spec2Model ----------------------------
(***************************************************************************)
(* Model of the four-bar excerpt tools of music-chart-tools:               *)
(*   fourbar/transposer.py  (Transposer)                                   *)
(*   fourbar/barcheck.py    (skip_partial_bar, check_bar_timing)           *)
(*   fourbar/partial.py     (check_partial_bar)                            *)
(*   fourbar/4bar.py        (transpose_measures, extract_melody,           *)
(*                           get_transpose_directive, get_new_key and the  *)
(*                           loop over the files of the directory)         *)
(*                                                                         *)
(* Python strings are sequences of one-character strings, so that the      *)
(* regular expressions, split/strip/join and the digit filters of the code *)
(* are computed character by character.  A rational <<n, d>> (d > 0, in    *)
(* lowest terms) stands for the float the code computes; durations are     *)
(* LilyPond durations (powers of two), for which the float sums are exact. *)
(***************************************************************************)
EXTENDS Integers, Sequences, FiniteSets, TLC

VARIABLES tr_args, transposer, first, second,
          cb_args, cb_result, cb_previous,
          cp_args, cp_result,
          tm_args, tm_result,
          ex_args, ex_result,
          dr_pc, ly_files, dr_index, melodies, dr_stdout

vars == <<tr_args, transposer, first, second, cb_args, cb_result, cb_previous,
          cp_args, cp_result, tm_args, tm_result, ex_args, ex_result,
          dr_pc, ly_files, dr_index, melodies, dr_stdout>>

trVars == <<tr_args, transposer, first, second>>
cbVars == <<cb_args, cb_result, cb_previous>>
cpVars == <<cp_args, cp_result>>
tmVars == <<tm_args, tm_result>>
exVars == <<ex_args, ex_result>>
drVars == <<dr_pc, ly_files, dr_index, melodies, dr_stdout>>


(***************************************************************************)
(* Characters and the string primitives of Python the code relies on.      *)
(***************************************************************************)
Digits == {"0", "1", "2", "3", "4", "5", "6", "7", "8", "9"}

LowerAlpha == {"a", "b", "c", "d", "e", "f", "g", "h", "i", "j", "k", "l", "m",
               "n", "o", "p", "q", "r", "s", "t", "u", "v", "w", "x", "y", "z"}

UpperAlpha == {"A", "B", "C", "D", "E", "F", "G", "H", "I", "J", "K", "L", "M",
               "N", "O", "P", "Q", "R", "S", "T", "U", "V", "W", "X", "Y", "Z"}

AlNum == LowerAlpha \cup UpperAlpha \cup Digits

\* \w of the re module
WordChars == AlNum \cup {"_"}

\* \s of the re module, and what str.strip() / str.split() treat as blank
WhiteSpace == {" ", "\t", "\n", "\r", "\f"}

SubStr(s, i, j) == IF j < i THEN <<>> ELSE SubSeq(s, i, j)

\* s[i:] starts with the literal lit (i is 1-based)
StartsWithAt(s, i, lit) ==
    /\ i >= 1
    /\ i + Len(lit) - 1 <= Len(s)
    /\ \A k \in 1..Len(lit) : s[i + k - 1] = lit[k]

StartsWith(s, lit) == StartsWithAt(s, 1, lit)

EndsWith(s, lit) == StartsWithAt(s, Len(s) - Len(lit) + 1, lit)

\* lit in s
Contains(s, lit) == \E i \in 1..(Len(s) + 1) : StartsWithAt(s, i, lit)

\* index just after the longest run of characters of set cs starting at i
RECURSIVE SpanWhile(_, _, _)
SpanWhile(s, i, cs) ==
    IF i <= Len(s) /\ s[i] \in cs THEN SpanWhile(s, i + 1, cs) ELSE i

\* str.strip()
RECURSIVE LStrip(_)
LStrip(s) == IF s # <<>> /\ Head(s) \in WhiteSpace THEN LStrip(Tail(s)) ELSE s

RECURSIVE RStrip(_)
RStrip(s) ==
    IF s # <<>> /\ s[Len(s)] \in WhiteSpace
    THEN RStrip(SubStr(s, 1, Len(s) - 1)) ELSE s

Strip(s) == RStrip(LStrip(s))

\* str.strip("',")
RECURSIVE StripMarks(_)
StripMarks(s) ==
    IF s # <<>> /\ Head(s) \in {"'", ","} THEN StripMarks(Tail(s))
    ELSE IF s # <<>> /\ s[Len(s)] \in {"'", ","}
         THEN StripMarks(SubStr(s, 1, Len(s) - 1))
         ELSE s

\* str.lower() on the characters the pitch patterns admit
LowerChar(c) ==
    CASE c = "A" -> "a" [] c = "B" -> "b" [] c = "C" -> "c" [] c = "D" -> "d"
      [] c = "E" -> "e" [] c = "F" -> "f" [] c = "G" -> "g" [] OTHER -> c

Lower(s) == [i \in 1..Len(s) |-> LowerChar(s[i])]

\* str.split(" "): pieces between single blanks, empty pieces included
\* index of the first character of set cs at or after i (Len(s) + 1 if none)
RECURSIVE SpanUntil(_, _, _)
SpanUntil(s, i, cs) ==
    IF i <= Len(s) /\ s[i] \notin cs THEN SpanUntil(s, i + 1, cs) ELSE i

\* s[i:].split(" "): the pieces between single blanks, empty pieces included
RECURSIVE SplitFrom(_, _)
SplitFrom(s, i) ==
    LET j == SpanUntil(s, i, {" "})
    IN  IF j > Len(s) THEN <<SubStr(s, i, Len(s))>>
        ELSE <<SubStr(s, i, j - 1)>> \o SplitFrom(s, j + 1)

SplitOnSpace(s) == SplitFrom(s, 1)

\* str.split(): maximal runs of non-blank characters
RECURSIVE SplitWhite(_)
SplitWhite(s) ==
    LET t == LStrip(s)
        j == SpanUntil(t, 1, WhiteSpace)
    IN  IF t = <<>> THEN <<>>
        ELSE <<SubStr(t, 1, j - 1)>> \o SplitWhite(SubStr(t, j, Len(t)))

\* sep.join(parts)
RECURSIVE Join(_, _)
Join(parts, sep) ==
    IF parts = <<>> THEN <<>>
    ELSE IF Len(parts) = 1 THEN parts[1]
    ELSE parts[1] \o sep \o Join(Tail(parts), sep)

\* ''.join(filter(str.isdigit, note))
DigitsOf(s) == SelectSeq(s, LAMBDA c : c \in Digits)

DigitVal(c) ==
    CASE c = "0" -> 0 [] c = "1" -> 1 [] c = "2" -> 2 [] c = "3" -> 3
      [] c = "4" -> 4 [] c = "5" -> 5 [] c = "6" -> 6 [] c = "7" -> 7
      [] c = "8" -> 8 [] c = "9" -> 9

\* int(number_part)
RECURSIVE StrToInt(_)
StrToInt(s) ==
    IF s = <<>> THEN 0
    ELSE 10 * StrToInt(SubStr(s, 1, Len(s) - 1)) + DigitVal(s[Len(s)])

DigitChar(n) ==
    CASE n = 0 -> "0" [] n = 1 -> "1" [] n = 2 -> "2" [] n = 3 -> "3"
      [] n = 4 -> "4" [] n = 5 -> "5" [] n = 6 -> "6" [] n = 7 -> "7"
      [] n = 8 -> "8" [] n = 9 -> "9"

\* the decimal text an f-string writes for a non-negative int
RECURSIVE IntToStr(_)
IntToStr(n) ==
    IF n < 10 THEN <<DigitChar(n)>>
    ELSE IntToStr(n \div 10) \o <<DigitChar(n % 10)>>

(***************************************************************************)
(* Beats: the floats of barcheck.py as exact rationals.                    *)
(***************************************************************************)
RECURSIVE GCD(_, _)
GCD(a, b) == IF b = 0 THEN a ELSE GCD(b, a % b)

Abs(x) == IF x < 0 THEN -x ELSE x

Rat(n, d) ==
    LET g == GCD(Abs(n), d) IN <<n \div g, d \div g>>

RAdd(x, y) == Rat(x[1] * y[2] + y[1] * x[2], x[2] * y[2])

RSub(x, y) == Rat(x[1] * y[2] - y[1] * x[2], x[2] * y[2])

RPos(x) == x[1] > 0

\* abs(x) < 1e-6
RTiny(x) == Abs(x[1]) <= (x[2] - 1) \div 1000000

\* int(1 / x) for x > 0: truncation toward zero
RTruncInv(x) == x[2] \div x[1]

(***************************************************************************)
(* transposer.py: class Transposer.                                        *)
(*                                                                         *)
(* A Transposer value is a record: the object [kind |-> "Transposer",      *)
(* interval |-> n], or the exception its construction raised, or None.     *)
(* A str result is a character sequence; an exception raised in its place  *)
(* is the one-element sequence holding the exception's name.               *)
(***************************************************************************)
NoTransposer == [kind |-> "None"]
RaisedKeyError == [kind |-> "KeyError"]
RaisedValueError == [kind |-> "ValueError"]

KeyError == <<"KeyError">>

IsTransposer(t) == t.kind = "Transposer"

\* self.note_values
note_values ==
    (<<"c">> :> 0) @@ (<<"d">> :> 2) @@ (<<"e">> :> 4) @@ (<<"f">> :> 5) @@
    (<<"g">> :> 7) @@ (<<"a">> :> 9) @@ (<<"b">> :> 11) @@
    (<<"c", "s">> :> 1) @@ (<<"d", "s">> :> 3) @@ (<<"f", "s">> :> 6) @@
    (<<"g", "s">> :> 8) @@ (<<"a", "s">> :> 10) @@
    (<<"d", "f">> :> 1) @@ (<<"e", "f">> :> 3) @@ (<<"g", "f">> :> 6) @@
    (<<"a", "f">> :> 8) @@ (<<"b", "f">> :> 10) @@ (<<"c", "f">> :> 10)

\* value_to_note with class 3 spelled as a sharp
value_to_note_sharp3 ==
    (0 :> <<"c">>) @@ (1 :> <<"c", "s">>) @@ (2 :> <<"d">>) @@
    (3 :> <<"d", "s">>) @@ (4 :> <<"e">>) @@ (5 :> <<"f">>) @@
    (6 :> <<"f", "s">>) @@ (7 :> <<"g">>) @@ (8 :> <<"g", "s">>) @@
    (9 :> <<"a">>) @@ (10 :> <<"b", "f">>) @@ (11 :> <<"b">>)

\* self.value_to_note
value_to_note ==
    (0 :> <<"c">>) @@ (1 :> <<"c", "s">>) @@ (2 :> <<"d">>) @@
    (3 :> <<"e", "f">>) @@ (4 :> <<"e">>) @@ (5 :> <<"f">>) @@
    (6 :> <<"f", "s">>) @@ (7 :> <<"g">>) @@ (8 :> <<"g", "s">>) @@
    (9 :> <<"a">>) @@ (10 :> <<"b", "f">>) @@ (11 :> <<"b">>)

NoteNames == DOMAIN note_values

\* Transposer with the interval taken from target down to start
Transposer_swapped(starting_note, target_note) ==
    IF target_note \notin DOMAIN note_values \/ starting_note \notin DOMAIN note_values
    THEN RaisedKeyError
    ELSE [kind |-> "Transposer",
          interval |-> (note_values[starting_note] - note_values[target_note]) % 12]

\* Transposer with the interval taken as the distance between the two classes
Transposer_abs(starting_note, target_note) ==
    IF target_note \notin DOMAIN note_values \/ starting_note \notin DOMAIN note_values
    THEN RaisedKeyError
    ELSE [kind |-> "Transposer",
          interval |-> IF note_values[target_note] >= note_values[starting_note]
                       THEN note_values[target_note] - note_values[starting_note]
                       ELSE note_values[starting_note] - note_values[target_note]]

\* Transposer(starting_note, target_note): the object, or the exception raised
Transposer(starting_note, target_note) ==
    IF target_note \notin DOMAIN note_values \/ starting_note \notin DOMAIN note_values
    THEN RaisedKeyError
    ELSE [kind |-> "Transposer",
          interval |-> (note_values[target_note] - note_values[starting_note]) % 12]

kwTranspose == <<"\\", "t", "r", "a", "n", "s", "p", "o", "s", "e">>

\* end of a match of [a-g][b#]?[',]* starting at i, or 0 when s[i] is no letter a-g
PitchTokenEnd(s, i) ==
    IF i > Len(s) \/ s[i] \notin {"a", "b", "c", "d", "e", "f", "g"} THEN 0
    ELSE LET j == IF i + 1 <= Len(s) /\ s[i + 1] \in {"b", "#"} THEN i + 2 ELSE i + 1
         IN  SpanWhile(s, j, {"'", ","})

NoMatch == [matched |-> FALSE]

\* the match of \\transpose\s+([a-g][b#]?[',]*)\s+([a-g][b#]?[',]*) starting at i
TransposeMatchAt(s, i) ==
    IF ~StartsWithAt(s, i, kwTranspose) THEN NoMatch
    ELSE LET j1 == i + Len(kwTranspose)
             j2 == SpanWhile(s, j1, WhiteSpace)
             j4 == PitchTokenEnd(s, j2)
             j5 == SpanWhile(s, j4, WhiteSpace)
             j7 == PitchTokenEnd(s, j5)
         IN  IF j2 > j1 /\ j4 > 0 /\ j5 > j4 /\ j7 > 0
             THEN [matched |-> TRUE, group1 |-> SubStr(s, j2, j4 - 1),
                   group2 |-> SubStr(s, j5, j7 - 1)]
             ELSE NoMatch

\* re.search(pattern, directive): the leftmost match, or no match
TransposeSearch(s) ==
    IF \E i \in 1..Len(s) : TransposeMatchAt(s, i).matched
    THEN TransposeMatchAt(s, CHOOSE i \in 1..Len(s) :
             /\ TransposeMatchAt(s, i).matched
             /\ \A k \in 1..(i - 1) : ~TransposeMatchAt(s, k).matched)
    ELSE NoMatch

\* from_lilypond_directive handing the matched groups to the constructor as matched
from_lilypond_directive_unstripped(directive) ==
    LET match == TransposeSearch(directive)
    IN  IF match.matched
        THEN Transposer(match.group1, match.group2)
        ELSE RaisedValueError

\* Transposer.from_lilypond_directive(directive)
from_lilypond_directive(directive) ==
    LET match == TransposeSearch(directive)
    IN  IF match.matched
        THEN Transposer(StripMarks(Lower(match.group1)), StripMarks(Lower(match.group2)))
        ELSE RaisedValueError

\* self.transpose_single_note(note)
transpose_single_note(self, note) ==
    IF note \notin DOMAIN note_values THEN KeyError
    ELSE value_to_note[(note_values[note] + self.interval) % 12]

\* self.transpose(notes_to_transpose) for a str argument
transpose(self, notes_to_transpose) == transpose_single_note(self, notes_to_transpose)

(***************************************************************************)
(* Calls on Transposer.  tr_args remembers how the current object was      *)
(* built; first and second log the transpose calls of a session of at most *)
(* two calls: the second call is made on the note the first returned,      *)
(* either with the same object or with one built from the key the first    *)
(* object reached.                                                         *)
(***************************************************************************)
NoArgs == [via |-> "none"]
NoCall == [called |-> FALSE]

Letters == {"a", "b", "c", "d", "e", "f", "g"}

\* arguments of the constructor: the table's names, and names outside it, among
\* them table names in upper case or followed by octave marks
PitchArgs ==
    NoteNames \cup {<<"C">>, <<"c", "#">>, <<"c", "'">>, <<"d", ",">>, <<"E", "F">>,
                    <<"b", "f", "'", "'">>}

\* arguments of transpose: the table's names and names outside it
NoteArgs == NoteNames \cup {<<"c", "#">>, <<"h">>, <<"C">>}

\* pitch tokens as a directive writes them
OctaveMarks == {<<>>, <<"'">>, <<",">>, <<"'", "'">>}

DirectivePitches ==
    {<<l>> \o acc \o marks : l \in Letters,
                            acc \in {<<>>, <<"b">>, <<"#">>},
                            marks \in OctaveMarks}

DirectiveTexts ==
    {kwTranspose \o <<" ">> \o g1 \o <<" ">> \o g2 :
         g1 \in DirectivePitches, g2 \in DirectivePitches}
    \cup {kwTranspose \o <<" ", "g", " ", "c", "\\", "r", "e", "l", "a", "t", "i", "v", "e",
                           " ", "c", "'", "'">>,
          kwTranspose \o <<" ", "b", "f", " ", "c">>,
          kwTranspose \o <<" ", "c", " ", "d", "s">>,
          kwTranspose \o <<" ", "C", " ", "d">>,
          kwTranspose \o <<" ", "c">>,
          kwTranspose \o <<"c", " ", "d">>,
          <<"%", " ">> \o kwTranspose \o <<" ", "d", ",", " ", " ", "e", "'">>,
          <<"t", "r", "a", "n", "s", "p", "o", "s", "e", " ", "c", " ", "d">>,
          <<>>}

TrInit ==
    /\ tr_args = NoArgs
    /\ transposer = NoTransposer
    /\ first = NoCall
    /\ second = NoCall

\* one call has been made, by the object built last, which came from the constructor
Continues ==
    /\ first.called
    /\ ~second.called
    /\ first.args = tr_args
    /\ first.args.via = "init"

\* Transposer(starting_note, target_note)
NewTransposer(starting_note, target_note) ==
    /\ tr_args' = [via |-> "init", starting_note |-> starting_note,
                   target_note |-> target_note]
    /\ transposer' = Transposer(starting_note, target_note)
    /\ UNCHANGED <<first, second>>
    /\ UNCHANGED <<cbVars, cpVars, tmVars, exVars, drVars>>

\* Transposer.from_lilypond_directive(directive)
FromDirective(directive) ==
    /\ tr_args' = [via |-> "directive", directive |-> directive]
    /\ transposer' = from_lilypond_directive(directive)
    /\ UNCHANGED <<first, second>>
    /\ UNCHANGED <<cbVars, cpVars, tmVars, exVars, drVars>>

\* transposer.transpose(note)
TransposeNote(note) ==
    /\ LET call == [called |-> TRUE, args |-> tr_args, interval |-> transposer.interval,
                    note |-> note, result |-> transpose(transposer, note)]
       IN  IF first.called
           THEN second' = call /\ UNCHANGED first
           ELSE first' = call /\ UNCHANGED second
    /\ UNCHANGED <<tr_args, transposer>>
    /\ UNCHANGED <<cbVars, cpVars, tmVars, exVars, drVars>>

\* build the first object
Build ==
    /\ transposer = NoTransposer
    /\ \E a \in PitchArgs, b \in PitchArgs : NewTransposer(a, b)

\* build the first object from a directive
BuildFromDirective ==
    /\ transposer = NoTransposer
    /\ \E d \in DirectiveTexts : FromDirective(d)

\* build the next object, from the key the first one reached
Rekey ==
    /\ Continues
    /\ \E b \in PitchArgs : NewTransposer(first.args.target_note, b)

\* the first call
TransposeFirst ==
    /\ IsTransposer(transposer)
    /\ ~first.called
    /\ \E n \in NoteArgs : TransposeNote(n)

\* the second call, on the note the first call returned
TransposeAgain ==
    /\ IsTransposer(transposer)
    /\ first.called
    /\ ~second.called
    /\ TransposeNote(first.result)

TrNext == Build \/ BuildFromDirective \/ Rekey \/ TransposeFirst \/ TransposeAgain

(***************************************************************************)
(* barcheck.py                                                             *)
(***************************************************************************)
kwPartial == <<"\\", "p", "a", "r", "t", "i", "a", "l">>

\* skip_partial_bar(bar_string): re.search(r'\\partial\s*(\d+/\d+|\d+)', bar_string)
skip_partial_bar(bar_string) ==
    \E i \in 1..Len(bar_string) :
        /\ StartsWithAt(bar_string, i, kwPartial)
        /\ LET j == SpanWhile(bar_string, i + Len(kwPartial), WhiteSpace)
           IN  j <= Len(bar_string) /\ bar_string[j] \in Digits

\* [note.strip() for note in bar_string.split(" ") if note.strip()]
NotesOf(bar_string) ==
    LET pieces == SplitOnSpace(bar_string)
        kept == SelectSeq(pieces, LAMBDA note : Strip(note) # <<>>)
    IN  [i \in 1..Len(kept) |-> Strip(kept[i])]

\* ... if note.strip() and not note.startswith('\\partial')]
PartialNotesOf(bar_string) ==
    LET pieces == SplitOnSpace(bar_string)
        kept == SelectSeq(pieces, LAMBDA note :
                    Strip(note) # <<>> /\ ~StartsWith(note, kwPartial))
    IN  [i \in 1..Len(kept) |-> Strip(kept[i])]

\* SumBeats counting a token by the duration in force before it
RECURSIVE SumBeats_stale(_, _, _, _)
SumBeats_stale(notes, i, total_beats, current_note_value) ==
    IF i > Len(notes) THEN [raised |-> FALSE, total_beats |-> total_beats]
    ELSE LET number_part == DigitsOf(notes[i])
             note_value == StrToInt(number_part)
         IN  IF number_part # <<>>
             THEN IF note_value = 0 THEN [raised |-> TRUE]
                  ELSE SumBeats_stale(notes, i + 1,
                                      RAdd(total_beats, Rat(1, current_note_value)),
                                      note_value)
             ELSE SumBeats_stale(notes, i + 1,
                                 RAdd(total_beats, Rat(1, current_note_value)),
                                 current_note_value)

\* the loop "for note in notes": total_beats and current_note_value after the
\* notes from index i on, or the ZeroDivisionError of 1 / 0
RECURSIVE SumBeats(_, _, _, _)
SumBeats(notes, i, total_beats, current_note_value) ==
    IF i > Len(notes) THEN [raised |-> FALSE, total_beats |-> total_beats]
    ELSE LET number_part == DigitsOf(notes[i])
             note_value == StrToInt(number_part)
         IN  IF number_part # <<>>
             THEN IF note_value = 0 THEN [raised |-> TRUE]
                  ELSE SumBeats(notes, i + 1, RAdd(total_beats, Rat(1, note_value)),
                                note_value)
             ELSE SumBeats(notes, i + 1, RAdd(total_beats, Rat(1, current_note_value)),
                           current_note_value)

\* BeatsOfNotes starting from an eighth note as the duration in force
BeatsOfNotes_fromEighth(notes) == SumBeats(notes, 1, <<0, 1>>, 8)

\* current_note_value = 4; total_beats = 0; for note in notes: ...
BeatsOfNotes(notes) == SumBeats(notes, 1, <<0, 1>>, 4)

ZeroDivisionError == [raised |-> "ZeroDivisionError"]
UnboundLocalError == [raised |-> "UnboundLocalError"]

Returned(is_valid, total_beats, fixed_bar) ==
    [raised |-> "no", is_valid |-> is_valid, total_beats |-> total_beats,
     fixed_bar |-> fixed_bar]

\* FixBar reporting every bar it was asked to fix as valid
FixBar_marksValid(bar_string, target_beats, total_beats, fix_mode) ==
    LET difference == RSub(target_beats, total_beats)
        filler(letter) == bar_string \o <<" ", letter>> \o IntToStr(RTruncInv(difference))
    IN  CASE fix_mode = "skip" ->
               IF RPos(difference)
               THEN Returned(TRUE, RAdd(total_beats, difference), filler("s"))
               ELSE Returned(TRUE, total_beats, bar_string)
          [] fix_mode = "rest" ->
               IF RPos(difference)
               THEN Returned(TRUE, RAdd(total_beats, difference), filler("r"))
               ELSE Returned(TRUE, total_beats, bar_string)
          [] fix_mode \in {"cut", "split"} -> Returned(TRUE, total_beats, bar_string)
          [] OTHER -> UnboundLocalError

\* FixBar with a filler of half the length: twice the truncated duration
FixBar_halfFiller(bar_string, target_beats, total_beats, fix_mode) ==
    LET difference == RSub(target_beats, total_beats)
        filler(letter) ==
            bar_string \o <<" ", letter>> \o IntToStr(2 * RTruncInv(difference))
    IN  CASE fix_mode = "skip" ->
               IF RPos(difference)
               THEN Returned(TRUE, RAdd(total_beats, difference), filler("s"))
               ELSE Returned(FALSE, total_beats, bar_string)
          [] fix_mode = "rest" ->
               IF RPos(difference)
               THEN Returned(TRUE, RAdd(total_beats, difference), filler("r"))
               ELSE Returned(FALSE, total_beats, bar_string)
          [] fix_mode \in {"cut", "split"} -> Returned(FALSE, total_beats, bar_string)
          [] OTHER -> UnboundLocalError

\* FixBar with the filler's duration rounded up instead of truncated
FixBar_roundedUp(bar_string, target_beats, total_beats, fix_mode) ==
    LET difference == RSub(target_beats, total_beats)
        filler(letter) ==
            bar_string \o <<" ", letter>>
                \o IntToStr((difference[2] + difference[1] - 1) \div difference[1])
    IN  CASE fix_mode = "skip" ->
               IF RPos(difference)
               THEN Returned(TRUE, RAdd(total_beats, difference), filler("s"))
               ELSE Returned(FALSE, total_beats, bar_string)
          [] fix_mode = "rest" ->
               IF RPos(difference)
               THEN Returned(TRUE, RAdd(total_beats, difference), filler("r"))
               ELSE Returned(FALSE, total_beats, bar_string)
          [] fix_mode \in {"cut", "split"} -> Returned(FALSE, total_beats, bar_string)
          [] OTHER -> UnboundLocalError

\* the branches of "if not is_valid and fix_bar" for an invalid bar
FixBar(bar_string, target_beats, total_beats, fix_mode) ==
    LET difference == RSub(target_beats, total_beats)
        filler(letter) == bar_string \o <<" ", letter>> \o IntToStr(RTruncInv(difference))
    IN  CASE fix_mode = "skip" ->
               IF RPos(difference)
               THEN Returned(TRUE, RAdd(total_beats, difference), filler("s"))
               ELSE Returned(FALSE, total_beats, bar_string)
          [] fix_mode = "rest" ->
               IF RPos(difference)
               THEN Returned(TRUE, RAdd(total_beats, difference), filler("r"))
               ELSE Returned(FALSE, total_beats, bar_string)
          [] fix_mode \in {"cut", "split"} -> Returned(FALSE, total_beats, bar_string)
          [] OTHER -> UnboundLocalError

\* check_bar_timing entering the fix branch whenever fix_bar is set
check_bar_timing_fixesValid(bar_string, time_signature, fix_bar, fix_mode) ==
    IF skip_partial_bar(bar_string)
    THEN LET sum == BeatsOfNotes(PartialNotesOf(bar_string))
         IN  IF sum.raised THEN ZeroDivisionError
             ELSE Returned(TRUE, sum.total_beats, bar_string)
    ELSE LET target_beats == time_signature
             sum == BeatsOfNotes(NotesOf(bar_string))
         IN  IF sum.raised THEN ZeroDivisionError
             ELSE LET is_valid == RTiny(RSub(sum.total_beats, target_beats))
                  IN  IF fix_bar
                      THEN FixBar(bar_string, target_beats, sum.total_beats, fix_mode)
                      ELSE Returned(is_valid, sum.total_beats, bar_string)

\* check_bar_timing(bar_string, time_signature, fix_bar, fix_mode)
check_bar_timing(bar_string, time_signature, fix_bar, fix_mode) ==
    IF skip_partial_bar(bar_string)
    THEN LET sum == BeatsOfNotes(PartialNotesOf(bar_string))
         IN  IF sum.raised THEN ZeroDivisionError
             ELSE Returned(TRUE, sum.total_beats, bar_string)
    ELSE LET target_beats == time_signature
             sum == BeatsOfNotes(NotesOf(bar_string))
         IN  IF sum.raised THEN ZeroDivisionError
             ELSE LET is_valid == RTiny(RSub(sum.total_beats, target_beats))
                  IN  IF ~is_valid /\ fix_bar
                      THEN FixBar(bar_string, target_beats, sum.total_beats, fix_mode)
                      ELSE Returned(is_valid, sum.total_beats, bar_string)

(***************************************************************************)
(* 4bar.py: transpose_measures                                             *)
(***************************************************************************)
\* re.sub(r'\\\w+\s*', '', measure), from index i on
RECURSIVE SubDirectives(_, _)
SubDirectives(s, i) ==
    IF i > Len(s) THEN <<>>
    ELSE IF s[i] = "\\" /\ i + 1 <= Len(s) /\ s[i + 1] \in WordChars
         THEN SubDirectives(s, SpanWhile(s, SpanWhile(s, i + 1, WordChars), WhiteSpace))
         ELSE <<s[i]>> \o SubDirectives(s, i + 1)

\* notes_only: the measure without directive words and without a trailing ~ or |
NotesOnly(measure) ==
    LET notes_only == SubDirectives(measure, 1)
    IN  IF EndsWith(notes_only, <<"~">>) \/ EndsWith(notes_only, <<"|">>)
        THEN SubStr(notes_only, 1, Len(notes_only) - 1)
        ELSE notes_only

\* re.match(r'^([a-gA-G])([b#]?)([\',]*)(\d*\.?\d*)([^a-zA-Z0-9]*)', note)
NoteMatch(note) ==
    IF note = <<>> \/ note[1] \notin (Letters \cup {"A", "B", "C", "D", "E", "F", "G"})
    THEN NoMatch
    ELSE LET j2 == IF 2 <= Len(note) /\ note[2] \in {"b", "#"} THEN 3 ELSE 2
             j3 == SpanWhile(note, j2, {"'", ","})
             ja == SpanWhile(note, j3, Digits)
             jb == IF ja <= Len(note) /\ note[ja] = "." THEN ja + 1 ELSE ja
             j4 == SpanWhile(note, jb, Digits)
             j5 == SpanUntil(note, j4, AlNum)
         IN  [matched |-> TRUE,
              note_name |-> SubStr(note, 1, 1),
              accidental |-> SubStr(note, 2, j2 - 1),
              octave |-> SubStr(note, j2, j3 - 1),
              duration |-> SubStr(note, j3, j4 - 1),
              articulations |-> SubStr(note, j4, j5 - 1)]

\* transposed_note.replace('#', 's').replace('b', 'f')
ToEnglish(s) ==
    [i \in 1..Len(s) |-> IF s[i] = "#" THEN "s" ELSE IF s[i] = "b" THEN "f" ELSE s[i]]

\* the body of "for note in notes": the text appended to transposed_notes, or the
\* KeyError that "except ValueError" does not catch
TransposeToken(note, tr) ==
    LET note_match == NoteMatch(note)
    IN  IF note_match.matched
        THEN LET transposed_note == transpose(tr, note_match.note_name \o note_match.accidental)
             IN  IF transposed_note = KeyError THEN KeyError
                 ELSE ToEnglish(transposed_note) \o note_match.octave
                          \o note_match.duration \o note_match.articulations
        ELSE note

\* the body of "for measure in measures"
TransposeMeasure(measure, tr) ==
    LET notes == SplitWhite(NotesOnly(measure))
        transposed_notes == [i \in 1..Len(notes) |-> TransposeToken(notes[i], tr)]
    IN  IF \E i \in 1..Len(notes) : transposed_notes[i] = KeyError THEN KeyError
        ELSE Join(transposed_notes, <<" ">>)
                 \o (IF EndsWith(measure, <<"|">>) THEN <<"|">> ELSE <<>>)

\* transpose_measures(measures, transposer)
transpose_measures(measures, tr) ==
    LET transposed_measures == [i \in 1..Len(measures) |-> TransposeMeasure(measures[i], tr)]
    IN  IF \E i \in 1..Len(measures) : transposed_measures[i] = KeyError
        THEN [raised |-> "KeyError"]
        ELSE [raised |-> "no", measures |-> transposed_measures]

(***************************************************************************)
(* 4bar.py: get_octave, extract_melody                                     *)
(*                                                                         *)
(* A dict is the sequence of its <<key, value>> items in insertion order.  *)
(***************************************************************************)
DictHas(d, k) == \E i \in 1..Len(d) : d[i][1] = k

DictGet(d, k) == d[CHOOSE i \in 1..Len(d) : d[i][1] = k][2]

\* d[k] = v
DictSet(d, k, v) ==
    IF DictHas(d, k)
    THEN [i \in 1..Len(d) |-> IF d[i][1] = k THEN <<k, v>> ELSE d[i]]
    ELSE Append(d, <<k, v>>)

kwRelative == <<"\\", "r", "e", "l", "a", "t", "i", "v", "e">>
kwMelody == <<"m", "e", "l", "o", "d", "y", " ", "=">>
kwClef == <<"\\", "c", "l", "e", "f">>
kwKey == <<"\\", "k", "e", "y">>
kwTime == <<"\\", "t", "i", "m", "e">>

\* r'\time' as the re module reads it: a TAB, then "ime"
reTime == <<"\t", "i", "m", "e">>

\* the match of \\relative\s+(c\'*)\s*{ starting at i: group(1), or no match
OctaveMatchAt(line, i) ==
    IF ~StartsWithAt(line, i, kwRelative) THEN NoMatch
    ELSE LET j1 == i + Len(kwRelative)
             j2 == SpanWhile(line, j1, WhiteSpace)
             j3 == SpanWhile(line, j2 + 1, {"'"})
             j4 == SpanWhile(line, j3, WhiteSpace)
         IN  IF /\ j2 > j1
                /\ j2 <= Len(line) /\ line[j2] = "c"
                /\ j4 <= Len(line) /\ line[j4] = "{"
             THEN [matched |-> TRUE, group1 |-> SubStr(line, j2, j3 - 1)]
             ELSE NoMatch

\* get_octave(line): the octave text, or the ValueError raised
get_octave(line) ==
    IF \E i \in 1..Len(line) : OctaveMatchAt(line, i).matched
    THEN OctaveMatchAt(line, CHOOSE i \in 1..Len(line) :
             /\ OctaveMatchAt(line, i).matched
             /\ \A k \in 1..(i - 1) : ~OctaveMatchAt(line, k).matched).group1
    ELSE <<"ValueError">>

\* the match of <marker>\s*(\d+/\d+) starting at i
TimeMatchAt(s, i, marker) ==
    IF ~StartsWithAt(s, i, marker) THEN NoMatch
    ELSE LET j1 == SpanWhile(s, i + Len(marker), WhiteSpace)
             j2 == SpanWhile(s, j1, Digits)
             j3 == SpanWhile(s, j2 + 1, Digits)
         IN  IF j2 > j1 /\ j2 <= Len(s) /\ s[j2] = "/" /\ j3 > j2 + 1
             THEN [matched |-> TRUE, numerator |-> SubStr(s, j1, j2 - 1),
                   denominator |-> SubStr(s, j2 + 1, j3 - 1)]
             ELSE NoMatch

\* re.search(r'\time\s*(\d+/\d+)', directives['time'])
TimeSearch(s) ==
    IF \E i \in 1..Len(s) : TimeMatchAt(s, i, reTime).matched
    THEN TimeMatchAt(s, CHOOSE i \in 1..Len(s) :
             /\ TimeMatchAt(s, i, reTime).matched
             /\ \A k \in 1..(i - 1) : ~TimeMatchAt(s, k, reTime).matched, reTime)
    ELSE NoMatch

\* time_signature of lines 214-218: eval(time_match.group(1)), else 4/4
TimeSignatureOf(time_directive) ==
    LET time_match == TimeSearch(time_directive)
    IN  IF time_match.matched
        THEN IF StrToInt(time_match.denominator) = 0 THEN [raised |-> TRUE]
             ELSE [raised |-> FALSE,
                   value |-> Rat(StrToInt(time_match.numerator),
                                 StrToInt(time_match.denominator))]
        ELSE [raised |-> FALSE, value |-> Rat(4, 4)]

\* os.path.splitext(os.path.basename(filename))[0]
Title(filename) ==
    LET slashes == {i \in 1..Len(filename) : filename[i] = "/"}
        base == IF slashes = {} THEN filename
                ELSE SubStr(filename, (CHOOSE i \in slashes : \A k \in slashes : k <= i) + 1,
                            Len(filename))
        lead == SpanWhile(base, 1, {"."})
        dots == {i \in lead..Len(base) : base[i] = "."}
    IN  IF dots = {} THEN base
        ELSE SubStr(base, 1, (CHOOSE i \in dots : \A k \in dots : k <= i) - 1)

\* the loop "for line in lines" from line i on; st holds directives, measures,
\* melody_started, and raised when get_octave failed
RECURSIVE ScanLines(_, _, _)
ScanLines(lines, i, st) ==
    IF i > Len(lines) THEN st
    ELSE LET line == lines[i]
             d == st.directives
         IN  IF Contains(line, kwMelody)
             THEN IF get_octave(line) = <<"ValueError">>
                  THEN [st EXCEPT !.raised = "ValueError"]
                  ELSE ScanLines(lines, i + 1,
                           [st EXCEPT !.directives = DictSet(d, "octave", get_octave(line)),
                                      !.melody_started = TRUE])
             ELSE IF ~st.melody_started
             THEN ScanLines(lines, i + 1, [st EXCEPT !.directives =
                      IF Contains(line, kwClef) /\ ~DictHas(d, "clef")
                      THEN DictSet(d, "clef", Strip(line))
                      ELSE IF Contains(line, kwKey) /\ ~DictHas(d, "key")
                      THEN DictSet(d, "key", Strip(line))
                      ELSE IF Contains(line, kwTime) /\ ~DictHas(d, "time")
                      THEN DictSet(d, "time", Strip(line))
                      ELSE d])
             ELSE IF Contains(line, <<"}">>) THEN st
             ELSE LET stripped_line == Strip(line)
                      measures == IF /\ stripped_line # <<>>
                                     /\ ~StartsWith(stripped_line, <<"%">>)
                                     /\ ~StartsWith(stripped_line, <<"\\">>)
                                  THEN Append(st.measures, stripped_line)
                                  ELSE st.measures
                  IN  IF Len(measures) >= 4 THEN [st EXCEPT !.measures = measures]
                      ELSE ScanLines(lines, i + 1, [st EXCEPT !.measures = measures])

kwDefaultTime == kwTime \o <<" ", "4", "/", "4">>

\* lines 229-247: the rendered text
Render(directives, measures, title) ==
    LET shown == SelectSeq(directives, LAMBDA item : item[1] # "octave")
        head == [i \in 1..Len(shown) |-> <<" ", " ">> \o shown[i][2]]
        kwReset == <<" ", " ", "\\", "r", "e", "s", "e", "t", "R", "e", "l", "a", "t", "i",
                     "v", "e", "O", "c", "t", "a", "v", "e", " ">>
        reset == kwReset \o (IF DictHas(directives, "octave")
                             THEN DictGet(directives, "octave") ELSE <<"c", "'">>)
        sp == SpanUntil(measures[1], 1, {" "})
        first_note == SubStr(measures[1], 1, sp - 1)
        rest == SubStr(measures[1], sp + 1, Len(measures[1]))
        titled == first_note \o <<" ", "^">> \o title \o <<" ">> \o rest
        body == IF measures = <<>> THEN <<>>
                ELSE Join(<<titled>> \o Tail(measures), <<"\n">>)
    IN  Join(head \o <<reset, body>>, <<"\n">>)

ExtractRaised(name) == [raised |-> name]

\* the directives argument: None, or a dict
NoDirectives == [none |-> TRUE]
GivenDirectives(items) == [none |-> FALSE, items |-> items]

\* extract_melody(file_path, filename, directives, transposer); lines is the
\* content of the file at file_path, tr is a Transposer or NoTransposer (None).
\* caller_directives is the caller's dict object after the call: a non-empty
\* dict is the very object the function writes to.
extract_melody(lines, filename, directives, tr) ==
    LET given == IF directives.none THEN <<>> ELSE directives.items
        scan == ScanLines(lines, 1, [directives |-> given, measures |-> <<>>,
                                     melody_started |-> FALSE, raised |-> "no"])
        timed == IF DictHas(scan.directives, "time") THEN scan.directives
                 ELSE DictSet(scan.directives, "time", kwDefaultTime)
        collected == scan.measures
        time_signature == TimeSignatureOf(DictGet(timed, "time"))
        checks == [i \in 1..Len(collected) |->
                      IF time_signature.raised THEN ZeroDivisionError
                      ELSE check_bar_timing(NotesOnly(collected[i]), time_signature.value,
                                            TRUE, "skip")]
        fixed_measures == [i \in 1..Len(collected) |-> checks[i].fixed_bar]
        transposed == IF IsTransposer(tr) /\ collected # <<>>
                      THEN transpose_measures(fixed_measures, tr)
                      ELSE [raised |-> "no", measures |-> fixed_measures]
        title == Title(filename)
    IN  IF scan.raised # "no" THEN ExtractRaised(scan.raised)
        ELSE IF \E i \in 1..Len(collected) : checks[i].raised # "no"
        THEN ExtractRaised("ZeroDivisionError")
        ELSE IF transposed.raised # "no" THEN ExtractRaised(transposed.raised)
        ELSE [raised |-> "no",
              title |-> title,
              output |-> Render(timed, transposed.measures, title),
              directives |-> timed,
              collected |-> collected,
              targets |-> [i \in 1..Len(collected) |-> time_signature.value],
              fixed_measures |-> fixed_measures,
              measures |-> transposed.measures,
              caller_directives |-> IF given = <<>> THEN given ELSE timed]

(***************************************************************************)
(* 4bar.py: get_transpose_directive, get_new_key and the body of the loop  *)
(* over the files.                                                         *)
(***************************************************************************)
NoLine == [found |-> FALSE]

\* get_transpose_directive(file_path) on the lines of the file: the first line,
\* stripped, that does not begin with % and contains \transpose, or None
get_transpose_directive(lines) ==
    LET hits == {i \in 1..Len(lines) :
                    /\ ~StartsWith(Strip(lines[i]), <<"%">>)
                    /\ Contains(Strip(lines[i]), kwTranspose)}
    IN  IF hits = {} THEN NoLine
        ELSE [found |-> TRUE,
              line |-> Strip(lines[CHOOSE i \in hits : \A k \in hits : i <= k])]

kwMajor == <<"\\", "m", "a", "j", "o", "r">>
kwMinor == <<"\\", "m", "i", "n", "o", "r">>

\* get_new_key(directive, directives): the target note and the directives dict after
\* the call, or the ValueError raised
get_new_key(directive, directives) ==
    LET match == TransposeSearch(directive)
        target_note == StripMarks(Lower(match.group2))
        current_key == DictGet(directives.items, "key")
        key_quality == IF Contains(Lower(current_key), kwMajor) THEN kwMajor
                       ELSE IF Contains(Lower(current_key), kwMinor) THEN kwMinor
                       ELSE kwMajor
    IN  IF ~match.matched THEN [raised |-> "ValueError"]
        ELSE [raised |-> "no",
              target_note |-> target_note,
              directives |->
                  IF ~directives.none /\ DictHas(directives.items, "key")
                  THEN DictSet(directives.items, "key",
                               kwKey \o <<" ">> \o target_note \o <<" ">> \o key_quality)
                  ELSE IF directives.none THEN <<>> ELSE directives.items]

\* lines 286-294: the title and the melody content taken from the excerpt, or the
\* exception extract_melody raised
Printed(extracted) ==
    IF extracted.raised # "no" THEN [raised |-> extracted.raised]
    ELSE [raised |-> "no", title |-> extracted.title,
          melody_content |-> extracted.output]

\* lines 266-294, the body of the try block of one file: the title and the melody
\* content printed, or the exception the except clause catches
ProcessFile(lines, filename) ==
    LET directives == <<>>
        directive_line == get_transpose_directive(lines)
        tr == IF directive_line.found THEN from_lilypond_directive(directive_line.line)
              ELSE NoTransposer
        new_key == get_new_key(directive_line.line, GivenDirectives(<<>>))
        updated == IF directive_line.found /\ DictHas(directives, "key")
                   THEN DictSet(directives, "key",
                                kwKey \o <<" ">> \o new_key.target_note \o <<" ">> \o kwMajor)
                   ELSE directives
    IN  IF directive_line.found /\ ~IsTransposer(tr) THEN [raised |-> tr.kind]
        ELSE IF directive_line.found /\ new_key.raised # "no"
        THEN [raised |-> new_key.raised]
        ELSE Printed(extract_melody(lines, filename, GivenDirectives(updated), tr))

(***************************************************************************)
(* Calls on check_bar_timing.                                              *)
(***************************************************************************)
MaxBarNotes == 3

BarTokens ==
    {<<"c", "4">>, <<"d", "8">>, <<"e">>, <<"g", "2">>, <<"f", "1", "6">>,
     <<"c", "0">>, <<"4">>, kwPartial}

\* the texts of at most n tokens of set toks, joined by single blanks
TextsOf(toks, n) ==
    {Join(t, <<" ">>) : t \in UNION {[1..k -> toks] : k \in 0..n}}

\* the measures of the documented examples
ExampleBars ==
    {<<"c", "4", " ", "d", "8", " ", "e", "8">>,
     <<"c", "4", " ", "d", "4", " ", "e", "4", " ", "f", "4">>}

BarStrings == TextsOf(BarTokens, MaxBarNotes) \cup ExampleBars

\* 3/4, 4/4, 2/4 and 3/2
TimeSignatures == {<<3, 4>>, <<1, 1>>, <<1, 2>>, <<3, 2>>}

FixModes == {"skip", "rest", "cut", "split"}

CbInit ==
    /\ cb_args = [called |-> FALSE]
    /\ cb_result = [raised |-> "none"]
    /\ cb_previous = [called |-> FALSE]

CheckBarTiming(bar_string, time_signature, fix_bar, fix_mode) ==
    /\ cb_args' = [called |-> TRUE, bar_string |-> bar_string,
                   time_signature |-> time_signature, fix_bar |-> fix_bar,
                   fix_mode |-> fix_mode]
    /\ cb_result' = check_bar_timing(bar_string, time_signature, fix_bar, fix_mode)
    /\ cb_previous' = IF cb_args.called
                      THEN [called |-> TRUE, args |-> cb_args, result |-> cb_result]
                      ELSE cb_previous
    /\ UNCHANGED <<trVars, cpVars, tmVars, exVars, drVars>>

\* the first call
CheckBar ==
    /\ ~cb_args.called
    /\ \E b \in BarStrings, ts \in TimeSignatures, fix \in BOOLEAN, m \in FixModes :
           CheckBarTiming(b, ts, fix, m)

\* the second call: the same call on the measure the first call returned
CheckBarAgain ==
    /\ cb_args.called
    /\ ~cb_previous.called
    /\ cb_result.raised = "no"
    /\ CheckBarTiming(cb_result.fixed_bar, cb_args.time_signature, cb_args.fix_bar,
                      cb_args.fix_mode)

CbNext == CheckBar \/ CheckBarAgain

(***************************************************************************)
(* partial.py and the calls on check_partial_bar.                          *)
(***************************************************************************)
\* re.search(r'\\partial\s*(\d+/\d+|\d+)', bar_string) starting at i: group(1) and
\* the index after the match
PartialMatchAt(bar_string, i) ==
    IF ~StartsWithAt(bar_string, i, kwPartial) THEN NoMatch
    ELSE LET j1 == SpanWhile(bar_string, i + Len(kwPartial), WhiteSpace)
             j2 == SpanWhile(bar_string, j1, Digits)
             j3 == SpanWhile(bar_string, j2 + 1, Digits)
         IN  IF j2 = j1 THEN NoMatch
             ELSE IF j2 <= Len(bar_string) /\ bar_string[j2] = "/" /\ j3 > j2 + 1
             THEN [matched |-> TRUE, group1 |-> SubStr(bar_string, j1, j3 - 1), end |-> j3]
             ELSE [matched |-> TRUE, group1 |-> SubStr(bar_string, j1, j2 - 1), end |-> j2]

\* the leftmost match, or no match
PartialSearch(bar_string) ==
    IF \E i \in 1..Len(bar_string) : PartialMatchAt(bar_string, i).matched
    THEN PartialMatchAt(bar_string, CHOOSE i \in 1..Len(bar_string) :
             /\ PartialMatchAt(bar_string, i).matched
             /\ \A k \in 1..(i - 1) : ~PartialMatchAt(bar_string, k).matched)
    ELSE NoMatch

\* lines 19-24: target_duration, or the ZeroDivisionError of the division
TargetDuration(duration) ==
    IF \E k \in 1..Len(duration) : duration[k] = "/"
    THEN LET slash == CHOOSE k \in 1..Len(duration) : duration[k] = "/"
             numerator == StrToInt(SubStr(duration, 1, slash - 1))
             denominator == StrToInt(SubStr(duration, slash + 1, Len(duration)))
         IN  IF denominator = 0 THEN [raised |-> TRUE]
             ELSE [raised |-> FALSE, value |-> Rat(numerator, denominator)]
    ELSE IF StrToInt(duration) = 0 THEN [raised |-> TRUE]
         ELSE [raised |-> FALSE, value |-> Rat(1, StrToInt(duration))]

\* TotalDuration counting a note by the duration in force before it
RECURSIVE TotalDuration_stale(_, _, _, _)
TotalDuration_stale(notes, i, total_duration, last_duration) ==
    IF i > Len(notes) THEN [raised |-> FALSE, total_duration |-> total_duration]
    ELSE LET number_part == DigitsOf(notes[i])
             duration == StrToInt(number_part)
         IN  IF number_part # <<>>
             THEN IF duration = 0 THEN [raised |-> TRUE]
                  ELSE TotalDuration_stale(notes, i + 1,
                                           RAdd(total_duration, Rat(1, last_duration)),
                                           duration)
             ELSE TotalDuration_stale(notes, i + 1,
                                      RAdd(total_duration, Rat(1, last_duration)),
                                      last_duration)

\* lines 37-56: total_duration after the notes from index i on, or the
\* ZeroDivisionError of 1 / 0
RECURSIVE TotalDuration(_, _, _, _)
TotalDuration(notes, i, total_duration, last_duration) ==
    IF i > Len(notes) THEN [raised |-> FALSE, total_duration |-> total_duration]
    ELSE LET number_part == DigitsOf(notes[i])
             duration == StrToInt(number_part)
         IN  IF number_part # <<>>
             THEN IF duration = 0 THEN [raised |-> TRUE]
                  ELSE TotalDuration(notes, i + 1,
                                     RAdd(total_duration, Rat(1, duration)), duration)
             ELSE TotalDuration(notes, i + 1,
                                RAdd(total_duration, Rat(1, last_duration)),
                                last_duration)

\* check_partial_bar(bar_string)
check_partial_bar(bar_string) ==
    LET partial_match == PartialSearch(bar_string)
        not_partial == <<"N", "o", "t", " ", "a", " ", "p", "a", "r", "t", "i", "a", "l",
                         " ", "b", "a", "r">>
    IN  IF ~partial_match.matched THEN Returned(FALSE, <<0, 1>>, not_partial)
        ELSE LET target_duration == TargetDuration(partial_match.group1)
                 notes == SplitWhite(SubStr(bar_string, partial_match.end, Len(bar_string)))
                 sum == TotalDuration(notes, 1, <<0, 1>>, 4)
             IN  IF target_duration.raised \/ sum.raised THEN ZeroDivisionError
                 ELSE Returned(RTiny(RSub(sum.total_duration, target_duration.value)),
                               sum.total_duration, bar_string)

MaxPartialNotes == 3

\* "\partial <length> <notes>", over the lengths a partial marker declares
PartialBars ==
    LET lengths == {<<"4">>, <<"8">>, <<"3", "/", "8">>, <<"1", "/", "2">>, <<"0">>,
                    <<"3", "/", "0">>}
        tokens == {<<"c", "8">>, <<"d", "1", "6">>, <<"e">>, <<"g", "4">>, <<"c", "0">>}
    IN  {kwPartial \o <<" ">> \o len \o (IF notes = <<>> THEN <<>> ELSE <<" ">> \o notes) :
             len \in lengths, notes \in TextsOf(tokens, MaxPartialNotes)}

\* the bars of test_partial_bars, a marker inside the measure, a marker written
\* without blank, a length cut short, and strings without marker
OtherPartialBars ==
    {kwPartial \o <<" ", "3", "/", "8", " ", "c", "8", " ", "d", "8", " ", "e", "8">>,
     kwPartial \o <<" ", "3", "/", "8", " ", "c", "8", " ", "d", "8">>,
     kwPartial \o <<" ", "4", " ", "c", "1", "6", " ", "d", "1", "6", " ", "e", "1", "6",
                    " ", "f", "1", "6">>,
     kwPartial \o <<" ", "4", " ", "c", "8", " ", "d", "8", " ", "e", "8">>,
     kwPartial \o <<" ", "c", "8", " ", "d", "8">>,
     kwPartial \o <<" ", "4", " ", "c", " ", "d", " ", "e", " ", "f">>,
     kwPartial \o <<" ", "4", "/", "4", " ", "c", "4", " ", "d", "4", " ", "e", "4",
                    " ", "f", "4">>,
     <<"c", "8", " ">> \o kwPartial \o <<" ", "8", " ", "d", "8">>,
     kwPartial \o <<"8", " ", "d", "8">>,
     kwPartial \o <<" ", "3", "/", " ", "c", "8">>,
     <<"c", "4", " ", "d", "4">>,
     <<>>}

PartialStrings == PartialBars \cup OtherPartialBars

CpInit ==
    /\ cp_args = [called |-> FALSE]
    /\ cp_result = [raised |-> "none"]

\* check_partial_bar(bar_string)
CheckPartialBar(bar_string) ==
    /\ cp_args' = [called |-> TRUE, bar_string |-> bar_string]
    /\ cp_result' = check_partial_bar(bar_string)
    /\ UNCHANGED <<trVars, cbVars, tmVars, exVars, drVars>>

CheckPartial ==
    /\ ~cp_args.called
    /\ \E b \in PartialStrings : CheckPartialBar(b)

\* check_bar_timing on the string check_partial_bar was called on
CheckSameBar ==
    /\ cp_args.called
    /\ ~cb_args.called
    /\ \E ts \in TimeSignatures, fix \in BOOLEAN, m \in FixModes :
           CheckBarTiming(cp_args.bar_string, ts, fix, m)

CpNext == CheckPartial \/ CheckSameBar

(***************************************************************************)
(* Calls on transpose_measures.                                            *)
(***************************************************************************)
MaxMeasureNotes == 2

MeasureStrings ==
    LET tokens == {<<"a", "4">>, <<"e", "f", "4">>, <<"c", "#", "4">>,
                   <<"g", "'", "8", ".">>, <<"r", "4">>, <<"|">>}
    IN  TextsOf(tokens, MaxMeasureNotes) \ {<<>>}

MeasureLists ==
    {<<>>} \cup {<<m>> : m \in MeasureStrings}
           \cup {<<m1, m2>> : m1 \in MeasureStrings, m2 \in MeasureStrings}


TmInit ==
    /\ tm_args = [called |-> FALSE]
    /\ tm_result = [raised |-> "none"]

TransposeMeasures(measures, tr) ==
    /\ tm_args' = [called |-> TRUE, measures |-> measures, transposer |-> tr]
    /\ tm_result' = transpose_measures(measures, tr)
    /\ UNCHANGED <<trVars, cbVars, cpVars, exVars, drVars>>

TmNext ==
    /\ ~tm_args.called
    \* the transposers handed to transpose_measures: c to d, g to c, c to c, c to b
    /\ \E ms \in MeasureLists,
          tr \in {Transposer(<<"c">>, <<"d">>), Transposer(<<"g">>, <<"c">>),
                  Transposer(<<"c">>, <<"c">>), Transposer(<<"c">>, <<"b">>)} :
           TransposeMeasures(ms, tr)

(***************************************************************************)
(* Calls on extract_melody.                                                *)
(***************************************************************************)
MaxBodyLines == 2

lnTime34 == kwTime \o <<" ", "3", "/", "4">>
lnTime68 == kwTime \o <<" ", "6", "/", "8">>
lnKey == kwKey \o <<" ", "g", " ", "\\", "m", "a", "j", "o", "r">>
lnClef == kwClef \o <<" ", "t", "r", "e", "b", "l", "e">>
lnMelody == kwMelody \o <<" ">> \o kwRelative \o <<" ", "c", "'", " ", "{">>
lnMelodyBad == kwMelody \o <<" ", "{">>
\* a second key line
lnKeyMinor == kwKey \o <<" ", "a", " ", "\\", "m", "i", "n", "o", "r">>
lnClose == <<"}">>

\* the lines before the melody start; lnTimeTab is a 3/4 directive whose trailing
\* comment holds a TAB followed by "ime 2/4", lnKeyOff and lnTimeOff are
\* commented-out directives
Headers ==
    LET lnTimeTab == lnTime34 \o <<" ", "%">> \o reTime \o <<" ", "2", "/", "4">>
        lnKeyOff == <<"%", " ">> \o lnKey
        lnTimeOff == <<"%">> \o lnTime34
    IN  {<<>>, <<lnTime34>>, <<lnKey, lnTime34>>, <<kwDefaultTime>>,
         <<lnClef, lnKey, lnTime68>>, <<lnTimeTab>>,
         <<lnKey, lnTime68, lnKeyMinor, lnTime34>>,
         <<lnKeyOff, lnTime68>>, <<lnClef, lnTimeOff, lnKeyMinor>>}

\* the lines of a melody body; lnMelodyUp is a second melody-start line, an octave
\* higher
BodyLines ==
    LET lnMelodyUp == kwMelody \o <<" ">> \o kwRelative \o <<" ", "c", "'", "'", " ", "{">>
    IN  {<<"c", "4", " ", "d", "4", " ", "e", "4">>,
         <<"c", "4", " ", "d", "4", " ", "e", "4", " ", "f", "4">>,
         <<"c", "8", " ">> \o kwPartial \o <<" ", "8", " ", "d", "8">>,
         <<"a", "2", " ", "b", "2", "|">>,
         <<"%", " ", "c", "4">>,
         lnMelodyUp,
         lnTime68}

Bodies == UNION {[1..k -> BodyLines] : k \in 0..MaxBodyLines}

FileName == <<"t", "u", "n", "e", ".", "l", "y">>

\* a measure that shares its line with the closing brace
lnLastBar == <<"g", "1", " ", "}">>

\* bodies of four and more measures, with the lines the collection skips between
\* them, bodies closed before their last measure, and a body with the flat and the
\* sharp of english.ly (ef, fs)
LongBodies ==
    LET m1 == <<"c", "4", " ", "d", "4", " ", "e", "4", " ", "f", "4">>
        m2 == <<"a", "2", " ", "b", "2", "|">>
        m3 == <<" ", "c", "4", " ", "d", "4", " ", "e", "4", " ">>
        m4 == <<"g", "1">>
        m5 == <<"e", "2", " ", "e", "2">>
        comment == <<" ", "%", " ", "c", "4">>
        lnBlank == <<" ", " ">>
    IN  {<<m1, m2, m3, m4>>,
         <<m1, m2, m3, m4, m5>>,
         <<m1, comment, m2, lnBlank, m3, lnTime68, m4, m5>>,
         <<comment, m5, m4, m3, m2, m1>>,
         <<m1, lnClose, m2>>,
         <<m1, m2, lnLastBar, m3>>,
         <<m1, m2, m3, lnLastBar, m4>>,
         <<<<"c", "8", " ", "e", "f", "4">>, <<"f", "s", "2", " ", "g", "4">>>>}

\* files that end without a closing brace, and files without a melody-start line
OpenFiles ==
    {<<lnKey, lnMelody, <<"c", "4", " ", "d", "4">>, <<"g", "1">>>>,
     <<lnMelody>>,
     <<lnKey, lnTime34, <<"c", "4", " ", "d", "4">>, lnClose>>,
     <<<<"c", "4", " ", "d", "4">>, <<"g", "1">>>>,
     <<>>}

Files ==
    {h \o <<start>> \o b \o <<lnClose>> :
         h \in Headers, start \in {lnMelody, lnMelodyBad}, b \in Bodies}
    \cup {h \o <<lnMelody>> \o b \o <<lnClose>> :
              h \in {<<>>, <<lnKey, lnTime34>>}, b \in LongBodies}
    \cup OpenFiles

ExInit ==
    /\ ex_args = [called |-> FALSE]
    /\ ex_result = [raised |-> "none"]

ExtractMelody(lines, filename, directives, tr) ==
    /\ ex_args' = [called |-> TRUE, lines |-> lines, filename |-> filename,
                   directives |-> directives, transposer |-> tr]
    /\ ex_result' = extract_melody(lines, filename, directives, tr)
    /\ UNCHANGED <<trVars, cbVars, cpVars, tmVars, drVars>>

ExNext ==
    /\ ~ex_args.called
    /\ \E f \in Files,
          d \in {NoDirectives, GivenDirectives(<<>>), GivenDirectives(<<<<"key", lnKey>>>>)},
          tr \in {NoTransposer, Transposer(<<"c">>, <<"d">>)} :
           ExtractMelody(f, FileName, d, tr)

(***************************************************************************)
(* The run of 4bar.py over a directory (lines 252-308).  dr_pc is the      *)
(* position of the script: before the listing, in the loop over ly_files   *)
(* (dr_index is the file the loop is at), or after its last statement.     *)
(* An element of ly_files is a name with the lines of the file of that     *)
(* name; dr_stdout is what the script has printed.                         *)
(***************************************************************************)
MaxFiles == 3

\* the characters of the file names, in code point order
CodeOrder == <<".", "a", "b", "c", "l", "t", "x", "y">>

Rank(c) == CHOOSE i \in 1..Len(CodeOrder) : CodeOrder[i] = c

\* a < b for two str
RECURSIVE StrLess(_, _)
StrLess(a, b) ==
    IF b = <<>> THEN FALSE
    ELSE IF a = <<>> THEN TRUE
    ELSE IF a[1] = b[1] THEN StrLess(Tail(a), Tail(b))
    ELSE Rank(a[1]) < Rank(b[1])

\* [f for f in listing if f.endswith('.ly')], then .sort()
SortedLyFiles(listing) ==
    LET kept == SelectSeq(listing, LAMBDA f : EndsWith(f.name, <<".", "l", "y">>))
        place(i) == 1 + Cardinality({k \in 1..Len(kept) : StrLess(kept[k].name, kept[i].name)})
    IN  [p \in 1..Len(kept) |-> kept[CHOOSE i \in 1..Len(kept) : place(i) = p]]

lnTransposeCD == kwTranspose \o <<" ", "c", " ", "d">>

lnBar == <<"c", "4", " ", "d", "4", " ", "e", "4", " ", "f", "4">>

\* the files of the directory: tunes with and without a transpose line, and tunes on
\* which the processing raises (ValueError of get_octave and of the transpose
\* pattern, KeyError of the Transposer, ZeroDivisionError of the bar check)
\* lnTransposeOne is a transpose line with one pitch, lnTransposeBad one to a pitch
\* outside the table, lnTransposeOff a commented one
FileContents ==
    LET lnTransposeGC == kwTranspose \o <<" ", "g", "'", " ", "c", ",">>
        lnTransposeOne == kwTranspose \o <<" ", "c">>
        lnTransposeBad == kwTranspose \o <<" ", "c", " ", "b", "b">>
        lnTransposeOff == <<"%", " ">> \o lnTransposeCD
    IN  {<<lnKey, lnMelody, lnBar, lnClose>>,
         <<lnKeyMinor, lnTime34, lnMelody, lnBar, lnClose, lnTransposeCD>>,
         <<lnKey, lnMelody, lnBar, lnClose, lnTransposeOff, lnTransposeGC>>,
         <<lnMelodyBad, lnBar, lnClose>>,
         <<lnKey, lnMelody, lnBar, lnClose, lnTransposeOne>>,
         <<lnMelody, lnBar, lnClose, lnTransposeBad>>,
         <<lnMelody, <<"c", "0">>, lnClose>>}

\* os.listdir(directory_path): the files of the directory in any order
Listings ==
    LET names == {<<"a", ".", "l", "y">>, <<"b", ".", "l", "y">>, <<"c", ".", "l", "y">>,
                  <<"b", ".", "t", "x", "t">>}
    IN  UNION {{l \in [1..k -> [name : names, lines : FileContents]] :
                   \A i, j \in 1..k : i # j => l[i].name # l[j].name} : k \in 0..MaxFiles}

DrInit ==
    /\ dr_pc = "start"
    /\ ly_files = <<>>
    /\ dr_index = 0
    /\ melodies = <<>>
    /\ dr_stdout = <<>>

\* lines 254-258: the listing, the sort and the header
ListDirectory ==
    /\ dr_pc = "start"
    /\ \E listing \in Listings :
           /\ ly_files' = SortedLyFiles(listing)
           /\ dr_pc' = "loop"
           /\ dr_index' = 1
           /\ dr_stdout' = <<[kind |-> "header"]>>
           /\ UNCHANGED melodies
    /\ UNCHANGED <<trVars, cbVars, cpVars, tmVars, exVars>>

\* lines 305-306: os.listdir raises FileNotFoundError
DirectoryMissing ==
    /\ dr_pc = "start"
    /\ dr_pc' = "done"
    /\ dr_stdout' = <<[kind |-> "error", error |-> "FileNotFoundError"]>>
    /\ UNCHANGED <<ly_files, dr_index, melodies>>
    /\ UNCHANGED <<trVars, cbVars, cpVars, tmVars, exVars>>

\* the loop left at the first file that raises
AfterFile_aborts(processed) == IF processed.raised = "no" THEN "loop" ELSE "aborted"

\* lines 295-299: where the script is after the try statement of one file; the
\* except clause ends with continue
AfterFile(processed) == "loop"

\* lines 290-299: what one pass prints and keeps, the excerpt or the error message
EndOfPass(processed) ==
    /\ dr_stdout' = Append(dr_stdout,
            IF processed.raised = "no"
            THEN [kind |-> "excerpt", title |-> processed.title,
                  text |-> processed.melody_content]
            ELSE [kind |-> "error", error |-> processed.raised])
    /\ melodies' = IF processed.raised = "no"
                   THEN Append(melodies, processed.melody_content)
                   ELSE melodies
    /\ dr_pc' = AfterFile(processed)

\* one pass of "for filename in ly_files": lines 262-299
NextFile ==
    /\ dr_pc = "loop"
    /\ dr_index <= Len(ly_files)
    /\ EndOfPass(ProcessFile(ly_files[dr_index].lines, ly_files[dr_index].name))
    /\ dr_index' = dr_index + 1
    /\ UNCHANGED ly_files
    /\ UNCHANGED <<trVars, cbVars, cpVars, tmVars, exVars>>

\* lines 301-303: all melodies once more, and the footer
PrintFooter ==
    /\ dr_pc = "loop"
    /\ dr_index > Len(ly_files)
    /\ dr_stdout' = dr_stdout \o <<[kind |-> "melodies", text |-> Join(melodies, <<"\n">>)],
                                   [kind |-> "footer"]>>
    /\ dr_pc' = "done"
    /\ UNCHANGED <<ly_files, dr_index, melodies>>
    /\ UNCHANGED <<trVars, cbVars, cpVars, tmVars, exVars>>

DrNext == ListDirectory \/ DirectoryMissing \/ NextFile \/ PrintFooter

(***************************************************************************)
(* Specifications: one per entry point.                                    *)
(***************************************************************************)
Init == TrInit /\ CbInit /\ CpInit /\ TmInit /\ ExInit /\ DrInit

Next == ExNext

Spec == Init /\ [][Next]_vars

SpecTransposer == Init /\ [][TrNext]_vars

SpecBar == Init /\ [][CbNext]_vars

SpecMeasures == Init /\ [][TmNext]_vars

SpecPartial == Init /\ [][CpNext]_vars

\* the loop runs to its end: the processing of a file terminates and the script is
\* the only thread.  The first condition is WF_vars(NextFile) with ENABLED NextFile
\* written out as the guard of the action
SpecDriver ==
    /\ Init
    /\ [][DrNext]_vars
    /\ \/ []<>~(dr_pc = "loop" /\ dr_index <= Len(ly_files))
       \/ []<><<NextFile>>_vars
    /\ WF_vars(PrintFooter)

(***************************************************************************)
(* The tables of the specification (section 4.2), against which the        *)
(* Transposer is checked.                                                  *)
(***************************************************************************)
pitchToClass ==
    (<<"c">> :> 0) @@ (<<"d">> :> 2) @@ (<<"e">> :> 4) @@ (<<"f">> :> 5) @@
    (<<"g">> :> 7) @@ (<<"a">> :> 9) @@ (<<"b">> :> 11) @@
    (<<"c", "s">> :> 1) @@ (<<"d", "s">> :> 3) @@ (<<"f", "s">> :> 6) @@
    (<<"g", "s">> :> 8) @@ (<<"a", "s">> :> 10) @@
    (<<"d", "f">> :> 1) @@ (<<"e", "f">> :> 3) @@ (<<"g", "f">> :> 6) @@
    (<<"a", "f">> :> 8) @@ (<<"b", "f">> :> 10) @@ (<<"c", "f">> :> 10)

classToPitch ==
    (0 :> <<"c">>) @@ (1 :> <<"c", "s">>) @@ (2 :> <<"d">>) @@
    (3 :> <<"e", "f">>) @@ (4 :> <<"e">>) @@ (5 :> <<"f">>) @@
    (6 :> <<"f", "s">>) @@ (7 :> <<"g">>) @@ (8 :> <<"g", "s">>) @@
    (9 :> <<"a">>) @@ (10 :> <<"b", "f">>) @@ (11 :> <<"b">>)

PitchTable == DOMAIN pitchToClass

CanonicalNames == {classToPitch[k] : k \in DOMAIN classToPitch}

\* the class a directive's pitch token denotes: its letter, raised by # and lowered by b
NotatedClass(token) ==
    LET letter == <<LowerChar(token[1])>>
        shift == IF Len(token) >= 2 /\ token[2] = "#" THEN 1
                 ELSE IF Len(token) >= 2 /\ token[2] = "b" THEN 11 ELSE 0
    IN  (pitchToClass[letter] + shift) % 12

Calls == {c \in {first, second} : c.called}

(***************************************************************************)
(* Claims on check_bar_timing (SpecBar).                                   *)
(***************************************************************************)
\* the call was made on a measure without partial marker whose tokens sum to
\* less than the target
UnderFilledCall ==
    /\ cb_args.called
    /\ ~skip_partial_bar(cb_args.bar_string)
    /\ LET sum == BeatsOfNotes(NotesOf(cb_args.bar_string))
       IN  /\ ~sum.raised
           /\ RPos(RSub(cb_args.time_signature, sum.total_beats))
           /\ ~RTiny(RSub(sum.total_beats, cb_args.time_signature))

\* C1: for every under-filled measure, check with fix=true and fixMode skip or rest
\* returns a measure whose token durations, summed by check's own rule, equal
\* targetBeats.
C1_FixedMeasureSumsToTarget ==
    (UnderFilledCall /\ cb_args.fix_bar /\ cb_args.fix_mode \in {"skip", "rest"})
    => /\ cb_result.raised = "no"
       /\ LET sum == BeatsOfNotes(NotesOf(cb_result.fixed_bar))
          IN  ~sum.raised /\ sum.total_beats = cb_args.time_signature

(***************************************************************************)
(* Claims on extract_melody (Spec).                                        *)
(***************************************************************************)
\* the beats a time directive declares: numerator/denominator after \time, 1 if none
DeclaredBeats(time_directive) ==
    IF \E i \in 1..Len(time_directive) : TimeMatchAt(time_directive, i, kwTime).matched
    THEN LET i == CHOOSE k \in 1..Len(time_directive) :
                      /\ TimeMatchAt(time_directive, k, kwTime).matched
                      /\ \A m \in 1..(k - 1) : ~TimeMatchAt(time_directive, m, kwTime).matched
             found == TimeMatchAt(time_directive, i, kwTime)
         IN  Rat(StrToInt(found.numerator), StrToInt(found.denominator))
    ELSE <<1, 1>>

Extracted == ex_args.called /\ ex_result.raised = "no"

\* C2: in extract, every collected measure is validated and fixed against
\* targetBeats = numerator/denominator of the excerpt's time directive, and against
\* 1.0 only when the directive is 4/4 or the file has none.
C2_TargetFromTimeDirective ==
    Extracted =>
        \A i \in 1..Len(ex_result.collected) :
            ex_result.targets[i] = DeclaredBeats(DictGet(ex_result.directives, "time"))

\* C3: in extract, a collected measure that carries a partial marker with an explicit
\* length is never validated against the time signature and never gets a filler
\* token: it leaves the validation pass with its note tokens unchanged.
C3_PartialMeasureUntouched ==
    Extracted =>
        \A i \in 1..Len(ex_result.collected) :
            skip_partial_bar(ex_result.collected[i])
            => SplitWhite(ex_result.fixed_measures[i])
                   = SplitWhite(NotesOnly(ex_result.collected[i]))

RoundTrip ==
    /\ second.called
    /\ first.args.via = "init"
    /\ second.args.via = "init"
    /\ second.args.starting_note = first.args.target_note
    /\ second.args.target_note = first.args.starting_note
    /\ second.note = first.result
    /\ first.note \in PitchTable

\* C5 as stated: the round trip returns p itself, for every p in the table.
C5_RoundTripReturnsInput == RoundTrip => second.result = first.note

\* C5 as amended: the round trip returns the canonical spelling of p's pitch class,
\* which is p itself exactly when p is one of the twelve canonical names.
C5_RoundTripReturnsCanonical ==
    RoundTrip =>
        /\ second.result = classToPitch[pitchToClass[first.note]]
        /\ (second.result = first.note) <=> (first.note \in CanonicalNames)

\* df went from c to e and back and came out as cs
C5_Witness ==
    /\ RoundTrip
    /\ first.args.starting_note = <<"c">>
    /\ first.args.target_note = <<"e">>
    /\ first.note = <<"d", "f">>
    /\ first.result = <<"f">>
    /\ second.result = <<"c", "s">>

\* p was transposed by Transposer(a, b) and the result by Transposer(b, c)
Composed ==
    /\ second.called
    /\ first.args.via = "init"
    /\ second.args.via = "init"
    /\ second.args.starting_note = first.args.target_note
    /\ second.note = first.result
    /\ first.note \in PitchTable

\* C6: transposing p with Transposer(a, b) and then the result with Transposer(b, c)
\* gives the same pitch name as transposing p with Transposer(a, c).
C6_TranslationInvariant ==
    Composed =>
        second.result = transpose(Transposer(first.args.starting_note,
                                             second.args.target_note), first.note)

\* ef went from d to c and the result on from c to g
C6_Witness ==
    /\ Composed
    /\ first.args.starting_note = <<"d">>
    /\ first.args.target_note = <<"c">>
    /\ second.args.target_note = <<"g">>
    /\ first.note = <<"e", "f">>
    /\ first.result = <<"c", "s">>
    /\ second.result = <<"g", "s">>

\* C10: for every text in which the transpose marker is followed by two pitch tokens
\* (letter a-g, optional # or b, optional octave marks) fromDirectiveText returns a
\* Transposer whose interval is (class(target) - class(source)) mod 12 of those two
\* pitches; for every other text it fails with the invalid-format error.
C10_FromDirectiveText ==
    tr_args.via = "directive" =>
        LET found == TransposeSearch(tr_args.directive)
        IN  IF found.matched
            THEN /\ IsTransposer(transposer)
                 /\ transposer.interval =
                        (NotatedClass(found.group2) + 12 - NotatedClass(found.group1)) % 12
            ELSE transposer = RaisedValueError

(***************************************************************************)
(* Claims on transpose_measures (SpecMeasures).                            *)
(***************************************************************************)
\* the tokens the loop reads from measure i, and the tokens of the measure returned
\* for it (without the barline put back after the last token)
InTokens(i) == SplitWhite(NotesOnly(tm_args.measures[i]))

OutTokens(i) ==
    LET out == tm_result.measures[i]
    IN  SplitWhite(IF EndsWith(tm_args.measures[i], <<"|">>)
                   THEN SubStr(out, 1, Len(out) - 1) ELSE out)

\* the pitch name the loop reads from a token
PitchOf(note) == NoteMatch(note).note_name \o NoteMatch(note).accidental

\* the token's pitch parses and is a name of the table
Parsed(note) == NoteMatch(note).matched /\ PitchOf(note) \in PitchTable

\* the canonical spelling of the token's pitch class moved by the interval
Moved(note) ==
    classToPitch[(pitchToClass[PitchOf(note)] + tm_args.transposer.interval) % 12]

\* C7: measure-level transposition never fails: a token whose pitch cannot be parsed
\* or whose pitch name is not in the table is left unchanged at its position, and
\* all other tokens and measures are still processed and returned.
C7_MeasureTransposeNeverFails ==
    tm_args.called =>
        /\ tm_result.raised = "no"
        /\ Len(tm_result.measures) = Len(tm_args.measures)
        /\ \A i \in 1..Len(tm_args.measures) :
               /\ Len(OutTokens(i)) = Len(InTokens(i))
               /\ \A j \in 1..Len(InTokens(i)) :
                      ~Parsed(InTokens(i)[j]) => OutTokens(i)[j] = InTokens(i)[j]

\* C8: for every note token that parses, the pitch written to the output is the
\* canonical s/f spelling of pitch class (class of the input pitch + interval) mod 12:
\* the re-serialisation of accidentals never changes its class or letter.
C8_OutputPitchIsCanonical ==
    (tm_args.called /\ tm_result.raised = "no") =>
        \A i \in 1..Len(tm_args.measures) :
            /\ Len(OutTokens(i)) = Len(InTokens(i))
            /\ \A j \in 1..Len(InTokens(i)) :
                   Parsed(InTokens(i)[j])
                   => StartsWith(OutTokens(i)[j], Moved(InTokens(i)[j]))

\* C9: measure-level transposition changes only the pitch part of a token: everything
\* after the pitch name appears unchanged in the corresponding output token, and the
\* number and order of tokens in the measure are preserved.
C9_OnlyPitchChanges ==
    (tm_args.called /\ tm_result.raised = "no") =>
        \A i \in 1..Len(tm_args.measures) :
            /\ Len(OutTokens(i)) = Len(InTokens(i))
            /\ \A j \in 1..Len(InTokens(i)) :
                   LET note == InTokens(i)[j]
                       out == OutTokens(i)[j]
                   IN  IF Parsed(note)
                       THEN SubStr(out, Len(Moved(note)) + 1, Len(out))
                                = SubStr(note, Len(PitchOf(note)) + 1, Len(note))
                       ELSE out = note

(***************************************************************************)
(* Claims on the constructor's arguments (SpecTransposer).                 *)
(***************************************************************************)
\* a pitch lowered to lower case and stripped of octave marks
Normalised(pitch) == StripMarks(Lower(pitch))

\* the constructor was called with arguments that are table pitches once normalised
BuiltFromRespelled ==
    /\ tr_args.via = "init"
    /\ Normalised(tr_args.starting_note) \in PitchTable
    /\ Normalised(tr_args.target_note) \in PitchTable

\* C11 as stated: the constructor normalises both arguments before lookup, so for
\* table pitches in upper case or followed by octave marks construction succeeds
\* with the interval of the bare lowercase pitches.
C11_ConstructorNormalises ==
    BuiltFromRespelled =>
        /\ IsTransposer(transposer)
        /\ transposer.interval =
               (pitchToClass[Normalised(tr_args.target_note)] + 12
                    - pitchToClass[Normalised(tr_args.starting_note)]) % 12

\* the text "\transpose <l1><m1> <l2><m2>" of two natural letters with octave marks
MarkedDirective(l1, m1, l2, m2) ==
    kwTranspose \o <<" ", l1>> \o m1 \o <<" ", l2>> \o m2

\* C11 as amended: the constructor looks its arguments up as given and fails with
\* the unknown-pitch error (KeyError) unless both are literally table names; the
\* normalisation is done by fromDirectiveText, which for two natural letters
\* followed by any octave marks yields the interval of the bare letters.
C11_NormalisedByDirective ==
    /\ tr_args.via = "init" =>
           IF tr_args.starting_note \in PitchTable /\ tr_args.target_note \in PitchTable
           THEN IsTransposer(transposer)
           ELSE transposer = RaisedKeyError
    /\ tr_args.via = "directive" =>
           \A l1 \in Letters, l2 \in Letters, m1 \in OctaveMarks, m2 \in OctaveMarks :
               tr_args.directive = MarkedDirective(l1, m1, l2, m2)
               => /\ IsTransposer(transposer)
                  /\ transposer.interval =
                         (pitchToClass[<<l2>>] + 12 - pitchToClass[<<l1>>]) % 12

\* a directive whose two pitches both carry octave marks has built a Transposer
C11_Witness ==
    /\ tr_args.via = "directive"
    /\ tr_args.directive = MarkedDirective("g", <<"'", "'">>, "c", <<",">>)
    /\ IsTransposer(transposer)
    /\ transposer.interval = 5

(***************************************************************************)
(* Claims on the filler of check_bar_timing (SpecBar).                     *)
(***************************************************************************)
\* the shortfall targetBeats - totalBeats of the call's measure
Shortfall == RSub(cb_args.time_signature, BeatsOfNotes(NotesOf(cb_args.bar_string)).total_beats)

\* text is the decimal numeral of n
IsNumeralOf(text, n) ==
    /\ text # <<>>
    /\ \A k \in 1..Len(text) : text[k] \in Digits
    /\ Len(text) > 1 => text[1] # "0"
    /\ StrToInt(text) = n

\* n is 1/x truncated toward zero, for a positive rational x
IsTruncatedInverse(n, x) == n * x[1] <= x[2] /\ x[2] < (n + 1) * x[1]

\* fixed is bar followed by one blank and one token made of letter and the numeral
\* of the truncated inverse of the shortfall
HasFiller(fixed, bar, letter) ==
    /\ Len(fixed) >= Len(bar) + 3
    /\ SubStr(fixed, 1, Len(bar)) = bar
    /\ fixed[Len(bar) + 1] = " "
    /\ fixed[Len(bar) + 2] = letter
    /\ LET shortfall == Shortfall
           numeral == SubStr(fixed, Len(bar) + 3, Len(fixed))
       IN  \E n \in 0..shortfall[2] :
               /\ IsTruncatedInverse(n, shortfall)
               /\ IsNumeralOf(numeral, n)

\* C12: for an invalid, under-filled measure with fix=true, check returns the input
\* measure followed by exactly one filler token, " s<n>" in skip mode and " r<n>" in
\* rest mode, n being 1/(targetBeats - totalBeats) truncated toward zero, and
\* reports isValid=true with totalBeats equal to targetBeats.
C12_FillerToken ==
    (UnderFilledCall /\ cb_args.fix_bar /\ cb_args.fix_mode \in {"skip", "rest"})
    => /\ cb_result.raised = "no"
       /\ cb_result.is_valid
       /\ cb_result.total_beats = cb_args.time_signature
       /\ HasFiller(cb_result.fixed_bar, cb_args.bar_string,
                    IF cb_args.fix_mode = "skip" THEN "s" ELSE "r")

\* rest mode on "c4 d8" against 4/4: the shortfall 5/8 gives the filler r1
C12_Witness ==
    /\ UnderFilledCall
    /\ cb_args.fix_bar
    /\ cb_args.fix_mode = "rest"
    /\ cb_args.bar_string = <<"c", "4", " ", "d", "8">>
    /\ cb_args.time_signature = <<1, 1>>
    /\ cb_result.raised = "no"
    /\ cb_result.fixed_bar = <<"c", "4", " ", "d", "8", " ", "r", "1">>

\* the call check("c4 d8 e8", targetBeats=1.0, fix=true, fixMode=skip)
ExampleCall ==
    /\ cb_args.called
    /\ cb_args.bar_string = <<"c", "4", " ", "d", "8", " ", "e", "8">>
    /\ cb_args.time_signature = <<1, 1>>
    /\ cb_args.fix_bar
    /\ cb_args.fix_mode = "skip"

\* C13 as stated: check("c4 d8 e8", targetBeats=1.0, fix=true, fixMode=skip) computes
\* a total of 0.75 beats, appends the filler s4 and returns (true, 1.0, "c4 d8 e8 s4").
C13_ExampleAppendsS4 ==
    ExampleCall =>
        /\ BeatsOfNotes(NotesOf(cb_args.bar_string)).total_beats = <<3, 4>>
        /\ cb_result = Returned(TRUE, <<1, 1>>,
                                <<"c", "4", " ", "d", "8", " ", "e", "8", " ", "s", "4">>)

\* C13 as amended: the same call computes a total of 0.5 beats (1/4 + 1/8 + 1/8),
\* appends the filler s2 and returns (true, 1.0, "c4 d8 e8 s2").
C13_ExampleAppendsS2 ==
    ExampleCall =>
        /\ BeatsOfNotes(NotesOf(cb_args.bar_string)).total_beats = <<1, 2>>
        /\ cb_result = Returned(TRUE, <<1, 1>>,
                                <<"c", "4", " ", "d", "8", " ", "e", "8", " ", "s", "2">>)

C13_Witness == ExampleCall /\ cb_result.raised = "no" /\ cb_result.is_valid

(***************************************************************************)
(* Claims on measures check_bar_timing cannot fix (SpecBar).               *)
(***************************************************************************)
\* the call was made on a measure that takes the normal path (no partial marker)
\* and whose token durations can be summed
NormalCall ==
    /\ cb_args.called
    /\ ~skip_partial_bar(cb_args.bar_string)
    /\ ~BeatsOfNotes(NotesOf(cb_args.bar_string)).raised

\* the sum of the token durations of the call's measure
TokenSum == BeatsOfNotes(NotesOf(cb_args.bar_string)).total_beats

InvalidCall == NormalCall /\ ~RTiny(RSub(TokenSum, cb_args.time_signature))

OverFilledCall == InvalidCall /\ RPos(RSub(TokenSum, cb_args.time_signature))

SumsToTarget(bar, target) ==
    /\ ~skip_partial_bar(bar)
    /\ LET sum == BeatsOfNotes(NotesOf(bar))
       IN  ~sum.raised /\ RTiny(RSub(sum.total_beats, target))

\* C15: for every measure whose token sum already equals targetBeats, check with
\* fix=true (any fix mode) returns (true, totalBeats, the input measure unchanged), and
\* calling check again on the returned measure gives the identical result.
C15_ValidMeasureIdempotent ==
    /\ (cb_args.called /\ cb_args.fix_bar
            /\ SumsToTarget(cb_args.bar_string, cb_args.time_signature))
       => cb_result = Returned(TRUE, cb_args.time_signature, cb_args.bar_string)
    /\ (cb_previous.called /\ cb_previous.args.fix_bar
            /\ SumsToTarget(cb_previous.args.bar_string, cb_previous.args.time_signature))
       => /\ cb_previous.result =
                 Returned(TRUE, cb_previous.args.time_signature,
                          cb_previous.args.bar_string)
          /\ cb_result = cb_previous.result

\* check("c4 d4 e4 f4", 1.0, fix=true, skip) called twice
C15_Witness ==
    /\ cb_previous.called
    /\ cb_previous.args.bar_string = <<"c", "4", " ", "d", "4", " ", "e", "4", " ", "f", "4">>
    /\ cb_previous.args.time_signature = <<1, 1>>
    /\ cb_previous.args.fix_bar
    /\ cb_previous.args.fix_mode = "skip"
    /\ cb_result.raised = "no"
    /\ cb_result.is_valid

(***************************************************************************)
(* Claims on partial measures (SpecPartial).                               *)
(***************************************************************************)
\* text split into its words: the index of the first word that begins with the
\* partial marker (0 if none), the text of the declared length, which is the rest of
\* that word ("\partial8") or the next word ("\partial 8"), and the words after it
PartialParts(text) ==
    LET words == SplitWhite(text)
        marked == {k \in 1..Len(words) : StartsWith(words[k], kwPartial)}
        marker == IF marked = {} THEN 0 ELSE CHOOSE k \in marked : \A m \in marked : k <= m
    IN  IF marker = 0 THEN [marker |-> 0, length |-> <<>>, notes |-> <<>>]
        ELSE IF Len(words[marker]) > Len(kwPartial)
        THEN [marker |-> marker,
              length |-> SubStr(words[marker], Len(kwPartial) + 1, Len(words[marker])),
              notes |-> SubStr(words, marker + 1, Len(words))]
        ELSE [marker |-> marker,
              length |-> IF marker < Len(words) THEN words[marker + 1] ELSE <<>>,
              notes |-> SubStr(words, marker + 2, Len(words))]

IsInteger(t) == t # <<>> /\ \A k \in 1..Len(t) : t[k] \in Digits

IsFraction(t) ==
    \E k \in 2..(Len(t) - 1) :
        /\ t[k] = "/"
        /\ IsInteger(SubStr(t, 1, k - 1))
        /\ IsInteger(SubStr(t, k + 1, Len(t)))

\* the text holds a partial marker followed by an integer or a fraction
DeclaresLength(parts) ==
    /\ parts.marker > 0
    /\ IsInteger(parts.length) \/ IsFraction(parts.length)

\* numerator and denominator of the declared length: n declares 1/n, a/b declares a/b
Declared(length) ==
    IF IsInteger(length) THEN <<1, StrToInt(length)>>
    ELSE LET k == CHOOSE j \in 1..Len(length) : length[j] = "/"
         IN  <<StrToInt(SubStr(length, 1, k - 1)),
               StrToInt(SubStr(length, k + 1, Len(length)))>>

\* the duration of the k-th note: its own digits, else the nearest earlier explicit
\* duration, else a quarter
DurationOf(notes, k) ==
    LET explicit == {j \in 1..k : DigitsOf(notes[j]) # <<>>}
    IN  IF explicit = {} THEN 4
        ELSE StrToInt(DigitsOf(notes[CHOOSE j \in explicit : \A m \in explicit : m <= j]))

\* no duration and no declared denominator is 0
NoZero(parts) ==
    /\ Declared(parts.length)[2] # 0
    /\ \A k \in 1..Len(parts.notes) : DurationOf(parts.notes, k) # 0

\* the sum of 1/duration over the notes from index k on, as <<numerator, denominator>>
RECURSIVE SumFrom(_, _)
SumFrom(notes, k) ==
    IF k > Len(notes) THEN <<0, 1>>
    ELSE RAdd(<<1, DurationOf(notes, k)>>, SumFrom(notes, k + 1))

\* the declared length equals the sum of the durations of the notes that follow it
LengthMatches(parts) ==
    LET sum == SumFrom(parts.notes, 1)
        declared == Declared(parts.length)
    IN  declared[1] * sum[2] = sum[1] * declared[2]

\* C16: for every string that contains a partial marker, check returns isValid=true
\* and the input string unchanged, for every targetBeats, fix flag and fix mode, also
\* when the declared partial length differs from the sum of the note durations;
\* checkPartial on the same string reports isValid=false in exactly those
\* mismatching cases.
C16_PartialShortCircuit ==
    /\ cb_args.called =>
           LET parts == PartialParts(cb_args.bar_string)
           IN  DeclaresLength(parts)
               => /\ cb_result.raised = "no"
                  /\ cb_result.is_valid
                  /\ cb_result.fixed_bar = cb_args.bar_string
    /\ cp_args.called =>
           LET parts == PartialParts(cp_args.bar_string)
           IN  DeclaresLength(parts)
               => /\ cp_result.raised = "no"
                  /\ NoZero(parts)
                  /\ cp_result.is_valid <=> LengthMatches(parts)

\* C16 restricted to the strings in which no duration is 0: the division by zero
\* is the only way the short-circuit and the re-verification fail
C16_ShortCircuitWhereDefined ==
    /\ cb_args.called =>
           LET parts == PartialParts(cb_args.bar_string)
           IN  (DeclaresLength(parts) /\ NoZero(parts))
               => /\ cb_result.raised = "no"
                  /\ cb_result.is_valid
                  /\ cb_result.fixed_bar = cb_args.bar_string
    /\ cp_args.called =>
           LET parts == PartialParts(cp_args.bar_string)
           IN  (DeclaresLength(parts) /\ NoZero(parts))
               => /\ cp_result.raised = "no"
                  /\ cp_result.is_valid <=> LengthMatches(parts)

C18_BeatArithmeticNeverRaises ==
    /\ cb_args.called => cb_result.raised = "no"
    /\ cp_args.called => cp_result.raised = "no"

(***************************************************************************)
(* Claims on the scan of extract_melody (Spec).                            *)
(***************************************************************************)
\* the index of the first melody-start line of the file, 0 if there is none
MelodyStart(lines) ==
    LET starts == {i \in 1..Len(lines) : Contains(lines[i], kwMelody)}
    IN  IF starts = {} THEN 0 ELSE CHOOSE i \in starts : \A k \in starts : i <= k

MarkerOf(key) ==
    CASE key = "clef" -> kwClef [] key = "key" -> kwKey [] key = "time" -> kwTime

\* the index of the first line before the melody start that carries key's marker,
\* 0 if there is none
FirstSupplier(lines, key) ==
    LET last == IF MelodyStart(lines) = 0 THEN Len(lines) ELSE MelodyStart(lines) - 1
        suppliers == {i \in 1..last : Contains(lines[i], MarkerOf(key))}
    IN  IF suppliers = {} THEN 0 ELSE CHOOSE i \in suppliers : \A k \in suppliers : i <= k

\* the call passed no directives, or an empty mapping
NothingGiven == ex_args.directives.none \/ ex_args.directives.items = <<>>

\* C19: after the scan of any sequence of input lines, each directive key (clef, key,
\* time, octave) holds the value taken from the first line that supplied it and is
\* never overwritten by a later line, and no clef, key or time value is ever taken
\* from a line at or after the melody-start line.
C19_FirstOccurrenceWins ==
    (Extracted /\ NothingGiven) =>
        LET lines == ex_args.lines
            found == ex_result.directives
        IN  /\ \A key \in {"clef", "key"} :
                   IF FirstSupplier(lines, key) = 0 THEN ~DictHas(found, key)
                   ELSE /\ DictHas(found, key)
                        /\ DictGet(found, key) = Strip(lines[FirstSupplier(lines, key)])
            /\ DictGet(found, "time") =
                   IF FirstSupplier(lines, "time") = 0 THEN kwDefaultTime
                   ELSE Strip(lines[FirstSupplier(lines, "time")])
            /\ IF MelodyStart(lines) = 0 THEN ~DictHas(found, "octave")
               ELSE /\ DictHas(found, "octave")
                    /\ DictGet(found, "octave") = get_octave(lines[MelodyStart(lines)])

\* C19 for clef, key and time alone
C19_HeaderKeysFirstWins ==
    (Extracted /\ NothingGiven) =>
        LET lines == ex_args.lines
            found == ex_result.directives
        IN  /\ \A key \in {"clef", "key"} :
                   IF FirstSupplier(lines, key) = 0 THEN ~DictHas(found, key)
                   ELSE /\ DictHas(found, key)
                        /\ DictGet(found, key) = Strip(lines[FirstSupplier(lines, key)])
            /\ DictGet(found, "time") =
                   IF FirstSupplier(lines, "time") = 0 THEN kwDefaultTime
                   ELSE Strip(lines[FirstSupplier(lines, "time")])

\* the call passed a non-empty directives mapping
CallerGave == ~ex_args.directives.none /\ ex_args.directives.items # <<>>

\* C20: when the caller passes a non-empty directives mapping to extract, the header
\* scan for clef, key and time is skipped entirely: no clef, key or time entry is
\* added from the file's lines, whichever keys the caller supplied; only the octave
\* is still taken from the melody-start line.
C20_GivenDirectivesSuppressScan ==
    (Extracted /\ CallerGave) =>
        LET given == ex_args.directives.items
            found == ex_result.directives
        IN  /\ \A key \in {"clef", "key"} :
                   IF DictHas(given, key)
                   THEN DictHas(found, key) /\ DictGet(found, key) = DictGet(given, key)
                   ELSE ~DictHas(found, key)
            /\ DictGet(found, "time") =
                   IF DictHas(given, "time") THEN DictGet(given, "time") ELSE kwDefaultTime
            /\ DictHas(found, "octave") <=> MelodyStart(ex_args.lines) # 0

(***************************************************************************)
(* Claims on the collection of measures by extract_melody (Spec).          *)
(***************************************************************************)
\* a content line: not blank, not a comment, not starting with a backslash
IsContent(line) ==
    LET text == Strip(line)
    IN  text # <<>> /\ text[1] # "%" /\ text[1] # "\\"

\* the index of the first line after line start that holds the closing marker, one
\* past the last line if there is none
ClosingAfter(lines, start) ==
    LET closings == {i \in (start + 1)..Len(lines) : Contains(lines[i], <<"}">>)}
    IN  IF closings = {} THEN Len(lines) + 1
        ELSE CHOOSE i \in closings : \A k \in closings : i <= k

\* the first min(4, k) of the k content lines between the melody-start line and the
\* closing marker, stripped, in file order; none without a melody-start line
FirstFourContentLines(lines) ==
    LET start == MelodyStart(lines)
        between == SubStr(lines, start + 1, ClosingAfter(lines, start) - 1)
        content == SelectSeq(between, IsContent)
        count == IF Len(content) < 4 THEN Len(content) ELSE 4
    IN  IF start = 0 THEN <<>>
        ELSE [i \in 1..count |-> Strip(content[i])]

\* C21: for any input file, the measures of the excerpt are exactly the first
\* min(4, k) content lines (non-blank, not a comment, not starting with a directive
\* backslash) that come after the melody-start line and before the first line
\* containing the closing marker, in file order; the excerpt never holds more than 4
\* measures, and holds none if no melody-start line occurs.
C21_FirstFourContentLines ==
    Extracted =>
        /\ ex_result.collected = FirstFourContentLines(ex_args.lines)
        /\ Len(ex_result.collected) <= 4

\* C21 on the files that hold at most one melody-start line
C21_WithOneMelodyStart ==
    (Extracted /\ Cardinality({i \in 1..Len(ex_args.lines) :
                                   Contains(ex_args.lines[i], kwMelody)}) <= 1)
    => /\ ex_result.collected = FirstFourContentLines(ex_args.lines)
       /\ Len(ex_result.collected) <= 4

(***************************************************************************)
(* Claims on the objects handed to extract_melody (Spec).                  *)
(***************************************************************************)
\* C22: extract never modifies a directives mapping or Transposer handed in by the
\* caller: after the call returns, the caller's directives mapping has exactly the
\* keys and values it had before the call, and the Transposer is the one passed in.
C22_CallerObjectsUntouched ==
    (Extracted /\ ~ex_args.directives.none)
    => ex_result.caller_directives = ex_args.directives.items

(***************************************************************************)
(* Claims on the run over a directory (SpecDriver).                        *)
(***************************************************************************)
\* the i-th file of the sorted list raises while it is processed
Raises(i) == ProcessFile(ly_files[i].lines, ly_files[i].name).raised # "no"

\* what the script printed for the i-th file: the record after the header and the
\* records of the files before it
PrintedFor(i) == dr_stdout[i + 1]

\* every file of the list was processed and the footer is the last thing printed
BatchComplete ==
    /\ Len(dr_stdout) = Len(ly_files) + 3
    /\ dr_stdout[1].kind = "header"
    /\ \A i \in 1..Len(ly_files) :
           IF Raises(i) THEN PrintedFor(i).kind = "error"
           ELSE /\ PrintedFor(i).kind = "excerpt"
                /\ PrintedFor(i).text =
                       ProcessFile(ly_files[i].lines, ly_files[i].name).melody_content
    /\ dr_stdout[Len(dr_stdout)].kind = "footer"

\* C23: in the multi-file driver, a parse, format or unknown-pitch error raised while
\* processing one file ends only that file's processing: every file after it in the
\* sorted list is still processed, its excerpt is still emitted, and the footer is
\* still printed.
C23_BatchSurvivesErrors == (dr_pc = "loop") ~> (dr_pc = "done" /\ BatchComplete)

\* a run that has ended in which a file raised and a later file has its excerpt
C23_Witness ==
    /\ dr_pc = "done"
    /\ BatchComplete
    /\ \E i, j \in 1..Len(ly_files) :
           /\ i < j
           /\ Raises(i)
           /\ PrintedFor(j).kind = "excerpt"

(***************************************************************************)
(* Claims on the sum of a measure (SpecBar).                               *)
(***************************************************************************)
\* one of the words is a partial marker with a length, attached to it or as the next
\* word
IsPartialMeasure(words) ==
    \E k \in 1..Len(words) :
        /\ StartsWith(words[k], kwPartial)
        /\ LET attached == SubStr(words[k], Len(kwPartial) + 1, Len(words[k]))
               length == IF attached # <<>> THEN attached
                         ELSE IF k < Len(words) THEN words[k + 1] ELSE <<>>
           IN  IsInteger(length) \/ IsFraction(length)

TransposeLines(lines) ==
    {k \in 1..Len(lines) :
        /\ ~StartsWith(Strip(lines[k]), <<"%">>)
        /\ Contains(lines[k], kwTranspose)}

\* the target pitch of a transpose line: the second word after the marker, in lower
\* case and without octave marks
TargetPitch(line) ==
    LET words == SplitWhite(line)
        k == CHOOSE j \in 1..Len(words) : words[j] = kwTranspose
    IN  StripMarks(Lower(words[k + 2]))

\* the key line a transposed tune is to show: the target pitch with the quality of
\* the key directive of the file
TransposedKey(lines) ==
    LET directive == CHOOSE k \in TransposeLines(lines) : \A j \in TransposeLines(lines) : k <= j
        key == lines[FirstSupplier(lines, "key")]
        quality == IF Contains(key, kwMinor) THEN kwMinor ELSE kwMajor
    IN  kwKey \o <<" ">> \o TargetPitch(lines[directive]) \o <<" ">> \o quality

\* C25: in the multi-file driver, when a file has a transpose directive, the key
\* directive emitted in that file's excerpt names the transpose target pitch and keeps
\* the major/minor quality of the file's original key directive.
C25_KeyFollowsTranspose ==
    \A i \in 1..Len(ly_files) :
        (/\ i < dr_index
         /\ PrintedFor(i).kind = "excerpt"
         /\ TransposeLines(ly_files[i].lines) # {}
         /\ FirstSupplier(ly_files[i].lines, "key") # 0)
        => Contains(PrintedFor(i).text, TransposedKey(ly_files[i].lines))

(***************************************************************************)
(* Claims on the filler of a fixed measure (SpecBar).                      *)
(***************************************************************************)
\* the call appended a filler: an under-filled measure, fix requested in skip or rest
\* mode
FillerAppended ==
    /\ UnderFilledCall
    /\ cb_args.fix_bar
    /\ cb_args.fix_mode \in {"skip", "rest"}
    /\ cb_result.raised = "no"

\* the last word of the returned measure without its first letter
FillerDuration ==
    LET words == SplitWhite(cb_result.fixed_bar)
    IN  Tail(words[Len(words)])

\* C26: every filler token that check appends (skip or rest mode) carries a duration
\* that is a positive integer (at least 1), for every measure and every targetBeats
\* including time signatures longer than one whole note, so that the fixed measure
\* can itself be passed to check again.
C26_FillerDurationPositive ==
    FillerAppended => IsInteger(FillerDuration) /\ StrToInt(FillerDuration) >= 1

\* x <= 1 for a rational x
RAtMostOne(x) == x[1] <= x[2]

\* the first call of the session appended a filler to a measure whose shortfall was
\* at most one whole note
FirstCallFilled ==
    /\ cb_previous.called
    /\ cb_previous.result.fixed_bar # cb_previous.args.bar_string
    /\ RAtMostOne(RSub(cb_previous.args.time_signature,
                       SumFrom(SplitWhite(cb_previous.args.bar_string), 1)))

\* C27: the truncating fix never under-corrects: for every under-filled measure whose
\* shortfall is at most one whole note, the measure returned by check in skip or rest
\* mode has a true token sum greater than or equal to targetBeats, so a second check
\* of that measure never appends another filler.
C27_FixNeverUnderCorrects ==
    /\ (FillerAppended /\ RAtMostOne(Shortfall))
       => ~RPos(RSub(cb_args.time_signature,
                     SumFrom(SplitWhite(cb_result.fixed_bar), 1)))
    /\ FirstCallFilled
       => /\ cb_result.raised = "no"
          /\ cb_result.fixed_bar = cb_args.bar_string

\* check("c4 d8", 1.0, fix, rest) returned "c4 d8 r1"; checked again, the measure
\* holds 11/8 and comes back as it is
C27_Witness ==
    /\ FirstCallFilled
    /\ cb_previous.args.bar_string = <<"c", "4", " ", "d", "8">>
    /\ cb_previous.args.fix_mode = "rest"
    /\ cb_args.bar_string = <<"c", "4", " ", "d", "8", " ", "r", "1">>
    /\ cb_result.raised = "no"
    /\ cb_result.total_beats = <<11, 8>>
    /\ cb_result.fixed_bar = cb_args.bar_string

(***************************************************************************)
(* Claims on the timing of transposed measures (Spec).                     *)
(***************************************************************************)
\* the call passed a Transposer and the excerpt has measures
TransposedExcerpt ==
    /\ Extracted
    /\ IsTransposer(ex_args.transposer)
    /\ ex_result.measures # <<>>

\* the total beats check computes for a measure, <<0, 0>> if it raises
BeatsUnderCheck(measure, target) ==
    LET checked == check_bar_timing(measure, target, FALSE, "skip")
    IN  IF checked.raised = "no" THEN checked.total_beats ELSE <<0, 0>>

\* the last word of a measure
LastWord(measure) ==
    LET words == SplitWhite(measure)
    IN  words[Len(words)]

\* the validation pass appended a filler to the i-th measure
FillerAt(i) == ex_result.fixed_measures[i] # NotesOnly(ex_result.collected[i])

\* the i-th measure, after validation and after transposition, has the same total
\* beats, and its filler, if it got one, is the same token
TimingKept(i) ==
    /\ BeatsUnderCheck(ex_result.measures[i], ex_result.targets[i])
           = BeatsUnderCheck(ex_result.fixed_measures[i], ex_result.targets[i])
    /\ FillerAt(i) =>
           LastWord(ex_result.measures[i]) = LastWord(ex_result.fixed_measures[i])

\* C28: transposition preserves timing: for every measure produced by the validation
\* pass of extract, the transposed measure has the same total beats under check as
\* the untransposed measure, and filler tokens (s<n>, r<n>) appended by the fixer
\* pass through transposition unchanged.
C28_TranspositionKeepsTiming ==
    TransposedExcerpt => \A i \in 1..Len(ex_result.measures) : TimingKept(i)

\* a token is a pitch (a letter a-g, # or b, octave marks), a duration and marks that
\* are neither letters nor digits, or does not begin with a pitch letter at all
ParsesWhole(token) ==
    LET pitch == IF token[1] \in {"a", "b", "c", "d", "e", "f", "g",
                                  "A", "B", "C", "D", "E", "F", "G"} THEN 2 ELSE 1
        accidental == IF pitch = 2 /\ Len(token) >= 2 /\ token[2] \in {"b", "#"}
                      THEN 3 ELSE pitch
        tail == SubStr(token, accidental, Len(token))
    IN  pitch = 1 \/ \A k \in 1..Len(tail) : tail[k] \notin (LowerAlpha \cup UpperAlpha)

\* C28 on the excerpts whose tokens all parse whole
C28_WhereTokensParseWhole ==
    TransposedExcerpt =>
        \A i \in 1..Len(ex_result.measures) :
            (\A k \in 1..Len(SplitWhite(ex_result.fixed_measures[i])) :
                 ParsesWhole(SplitWhite(ex_result.fixed_measures[i])[k]))
            => TimingKept(i)

(***************************************************************************)
(* Claims on the two sums of a partial measure (SpecPartial).              *)
(***************************************************************************)
\* C29: for every partial-measure string, check and checkPartial agree on the
\* measure's total: the totalBeats returned by check's partial short-circuit equals
\* the total duration returned by checkPartial, so the declared-length token after
\* the partial marker is counted as a note by neither.
C29_TotalsAgree ==
    (/\ cp_args.called /\ cp_result.raised = "no"
     /\ cb_args.called /\ cb_result.raised = "no"
     /\ IsPartialMeasure(SplitWhite(cp_args.bar_string)))
    => cb_result.total_beats = cp_result.total_beats

(***************************************************************************)
(* Claims on commented-out header lines (Spec).                            *)
(***************************************************************************)
IsCommentLine(line) == StartsWith(Strip(line), <<"%">>)

\* C30: commented-out header lines are inert in extract: a line before the melody
\* start that begins with the comment marker % never supplies a clef, key or time
\* directive, so no comment line is emitted in the excerpt's directive block.
C30_CommentedHeadersInert ==
    Extracted =>
        /\ \A i \in 1..Len(ex_result.directives) :
               ex_result.directives[i][1] \in {"clef", "key", "time"}
               => ~IsCommentLine(ex_result.directives[i][2])
        /\ ~StartsWith(ex_result.output, <<" ", " ", "%">>)
        /\ ~Contains(ex_result.output, <<"\n", " ", " ", "%">>)

=============================================================================
